---- MODULE Spec2Model ----
(***************************************************************************)
(* Review store, approval workflow and cache-aside reads of the Flex       *)
(* reviews backend (ReviewsService, ReviewsRepository, AnalyticsService).  *)
(*                                                                         *)
(* Every request is served as a chain of awaited store / cache calls; a    *)
(* step of the model is one such call together with the synchronous code   *)
(* that follows it up to the next await. Requests of different processes   *)
(* interleave between steps, as they do on the node event loop.            *)
(***************************************************************************)
EXTENDS Integers, Sequences, FiniteSets, TLC

VARIABLES
    store,      \* the reviews collection: _id -> document (or NoReview)
    nextId,     \* index in ObjectIds of the next _id the store hands out
    cache,      \* the cache manager: key -> entry (or NoEntry)
    reqs,       \* per process: the request it serves (or served last)
    started,    \* number of requests that have arrived; the clock
    lastWriter  \* history: per document, the request that wrote it last

vars == <<started, nextId, store, cache, reqs, lastWriter>>

\* new Date(): time is counted in request arrivals. A request in flight reads
\* now; the first step of a request reads the time of its arrival
now == started
arrival == started + 1

-----------------------------------------------------------------------------
(* Bounds of the model *)

MaxOps == 3

-----------------------------------------------------------------------------
(* Values *)

Procs == {"p1", "p2"}

ObjectIds == <<"a1", "b2", "c3">>
ObjectIdSet == {ObjectIds[i] : i \in 1..Len(ObjectIds)}

HostawayIds == {1, 2}
Listings == {"L1", "L2"}

\* JS null / undefined of a string field, a Date field, a document, an entry
Null == "null"
Absent == "undefined"
NullDate == -1
NoReview == [absent |-> TRUE]
NoEntry == [absent |-> TRUE]
NoBody == [none |-> TRUE]

CACHE_KEYS_STATISTICS == "reviews:statistics"
CACHE_KEYS_APPROVED_REVIEWS == "reviews:approved"
CACHE_KEYS_TREND == "reviews:trend"
CACHE_PREFIX == "analytics"
DEFAULT_CACHE_TTL == 300
APPROVED_TTL == 600
TREND_TTL == 600
STATISTICS_TTL == 300
DefaultLimit == 10
DefaultDays == 30

-----------------------------------------------------------------------------
(* Inputs the requests are drawn from *)

CreateDtos ==
    { [hostawayId |-> 1, listingId |-> "L1", status |-> "published", submittedAt |-> 1],
      [hostawayId |-> 2, listingId |-> "L2", status |-> "published", submittedAt |-> 2] }

SyncBatches ==
    { <<>>,
      <<[hostawayId |-> 1, listingId |-> "L1", status |-> "pending", submittedAt |-> 1]>>,
      <<[hostawayId |-> 1, listingId |-> "L1", status |-> "published", submittedAt |-> 1],
        [hostawayId |-> 2, listingId |-> "L2", status |-> "published", submittedAt |-> 2]>> }

Approvers == {Absent, "bob"}

UpdateDtos ==
    { [isApprovedForPublic |-> TRUE],
      [isApprovedForPublic |-> FALSE],
      [managerNotes |-> "note"],
      [approvedBy |-> "bob"] }

\* ids a caller passes: well-formed _id strings, and all-digit strings
NumericIds == {"1", "2"}
IdStrings == {"a1", "1"}
UpdateIds == {"a1", "b2"}

BulkIdLists == { <<>>, <<"a1", "b2">> }

Limits == {1, DefaultLimit}
DaysSet == {DefaultDays}
ListingArgs == {Absent, "L1"}
AnalyticsFilters == { [none |-> TRUE], [listingId |-> "L1"] }

-----------------------------------------------------------------------------
(* The reviews collection *)

Stored(st, id) == st[id] # NoReview
StoredIds(st) == {id \in ObjectIdSet : Stored(st, id)}
Docs(st) == {st[id] : id \in StoredIds(st)}

\* schema defaults of Review (isApprovedForPublic, approvedBy, approvedAt, managerNotes)
NewDocument(id, data) ==
    [_id |-> id,
     hostawayId |-> data.hostawayId,
     listingId |-> data.listingId,
     status |-> data.status,
     submittedAt |-> data.submittedAt,
     isApprovedForPublic |-> FALSE,
     approvedBy |-> Null,
     approvedAt |-> NullDate,
     managerNotes |-> Null]

\* a write that replaces the document: fields not given fall back to defaults
ApplyReplace(doc, upd) ==
    [f \in DOMAIN doc |->
        IF f \in DOMAIN upd THEN upd[f]
        ELSE IF f \in {"_id", "hostawayId"} THEN doc[f]
        ELSE NewDocument(doc._id, doc)[f]]

\* $set / findByIdAndUpdate: the fields named by upd replace those of doc
ApplySet(doc, upd) ==
    [f \in DOMAIN doc |-> IF f \in DOMAIN upd THEN upd[f] ELSE doc[f]]

findByHostawayId(st, hid) == {id \in StoredIds(st) : st[id].hostawayId = hid}

\* what a lookup by _id that gives no document ends in: null (NotFound), or
\* for a string that is no _id, possibly a cast error of the driver
LookupErrors(id) == IF id \in ObjectIdSet THEN {"NotFound"} ELSE {"NotFound", "CastError"}

findById(st, id) == IF id \in ObjectIdSet /\ Stored(st, id) THEN st[id] ELSE NoReview

\* a collection without the unique index
UniqueIndexOff(st, hid) == TRUE

\* ReviewsRepository.create under the unique index on hostawayId:
\* TRUE when the store accepts the insert
UniqueIndexAccepts(st, hid) == findByHostawayId(st, hid) = {}

transformCreateDtoToEntity(dto) ==
    [hostawayId |-> dto.hostawayId,
     listingId |-> dto.listingId,
     status |-> dto.status,
     submittedAt |-> dto.submittedAt]

-----------------------------------------------------------------------------
(* The cache manager *)

approvedKey(listingId, limit) ==
    CACHE_KEYS_APPROVED_REVIEWS \o ":"
      \o (IF listingId = Absent THEN "all" ELSE listingId) \o ":" \o ToString(limit)

trendKey(days) == CACHE_KEYS_TREND \o ":" \o ToString(days)

\* JSON.stringify(filters)
stringify(filters) ==
    IF "listingId" \in DOMAIN filters
    THEN "{\"listingId\":\"" \o filters.listingId \o "\"}"
    ELSE "{}"

summaryKey(filters) == CACHE_PREFIX \o ":summary:" \o stringify(filters)

ApprovedKeys == {approvedKey(l, n) : l \in ListingArgs, n \in Limits}
TrendKeys == {trendKey(d) : d \in DaysSet}
AnalyticsKeys == {summaryKey(f) : f \in AnalyticsFilters}

\* an invalidation that reaches the analytics reports too
InvalidatedKeysWithAnalytics ==
    {CACHE_KEYS_STATISTICS, CACHE_KEYS_APPROVED_REVIEWS, CACHE_KEYS_TREND} \cup AnalyticsKeys

\* the keys invalidateCache passes to cacheManager.del
InvalidatedKeys ==
    {CACHE_KEYS_STATISTICS, CACHE_KEYS_APPROVED_REVIEWS, CACHE_KEYS_TREND}
      \cup {CACHE_KEYS_APPROVED_REVIEWS \o ":*", CACHE_KEYS_TREND \o ":*"}

CacheKeys ==
    {CACHE_KEYS_STATISTICS} \cup ApprovedKeys \cup TrendKeys \cup AnalyticsKeys
      \cup {CACHE_KEYS_APPROVED_REVIEWS, CACHE_KEYS_TREND,
            CACHE_KEYS_APPROVED_REVIEWS \o ":*", CACHE_KEYS_TREND \o ":*"}

\* a lookup that never finds an entry
cacheGetMiss(c, k) == NoEntry

cacheGet(c, k) == c[k]

cacheSet(c, k, v, ttl) == [c EXCEPT ![k] = [value |-> v, ttl |-> ttl, old |-> FALSE]]

\* a cache that never drops an entry
cacheDelNothing(c, keys) == c

\* del removes the entry stored under exactly this key
cacheDel(c, keys) == [k \in DOMAIN c |-> IF k \in keys THEN NoEntry ELSE c[k]]

\* history: a store write happened after the entry was written
MarkOld(c) ==
    [k \in DOMAIN c |-> IF c[k] = NoEntry THEN NoEntry ELSE [c[k] EXCEPT !.old = TRUE]]

invalidateCache(c) == cacheDel(c, InvalidatedKeys)

-----------------------------------------------------------------------------
(* Queries of the repository and of the analytics service *)

Min(a, b) == IF a < b THEN a ELSE b

\* the orders .sort({ submittedAt: -1 }) may return ids in (ties in any order)
SortedDesc(st, ids) ==
    LET n == Cardinality(ids) IN
    {s \in [1..n -> ids] :
        /\ \A i, j \in 1..n : i # j => s[i] # s[j]
        /\ \A i, j \in 1..n : i < j => st[s[i]].submittedAt >= st[s[j]].submittedAt}

\* .select('-managerNotes -approvedBy')
Project(doc) == [f \in DOMAIN doc \ {"managerNotes", "approvedBy"} |-> doc[f]]

approvedQuery(st, listingId) ==
    {id \in StoredIds(st) :
        /\ st[id].isApprovedForPublic
        /\ st[id].status = "published"
        /\ (listingId # Absent => st[id].listingId = listingId)}

\* the results findApprovedReviews may return
findApprovedReviews(st, listingId, limit) ==
    LET ids == approvedQuery(st, listingId)
        k == Min(limit, Cardinality(ids))
    IN  {[i \in 1..k |-> Project(st[s[i]])] : s \in SortedDesc(st, ids)}

overviewOf(docs) ==
    [totalReviews |-> Cardinality(docs),
     approvedCount |-> Cardinality({d \in docs : d.isApprovedForPublic}),
     pendingCount |-> Cardinality({d \in docs : ~d.isApprovedForPublic})]

\* ReviewsRepository.getStatistics and the transformation of ReviewsService.getStatistics
\* (counts; the documents of this model carry no ratings)
statisticsOf(st) ==
    [overview |-> overviewOf(Docs(st)),
     topProperties |->
        {[listingId |-> l,
          reviewCount |-> Cardinality({d \in Docs(st) : d.listingId = l}),
          approvedCount |->
              Cardinality({d \in Docs(st) : d.listingId = l /\ d.isApprovedForPublic})]
            : l \in {d.listingId : d \in Docs(st)}}]

\* ReviewsRepository.getReviewsTrend: one group per submission day in the window
reviewsTrendOf(st, days, t) ==
    LET inWindow == {d \in Docs(st) : d.submittedAt >= t - days} IN
    [trend |->
        {[date |-> day, count |-> Cardinality({d \in inWindow : d.submittedAt = day})]
            : day \in {d.submittedAt : d \in inWindow}}]

\* buildDateFilter reads startDate / endDate only: {} for the filters of this model
summaryOf(st, filters, t) ==
    [overview |-> overviewOf(Docs(st)),
     pendingReviews |-> {d._id : d \in {d \in Docs(st) : ~d.isApprovedForPublic}},
     generatedAt |-> t]

-----------------------------------------------------------------------------
(* Requests *)

Pending == [status |-> "pending", body |-> NoBody]
Failed(error) == [status |-> error, body |-> NoBody]
Ok(body) == [status |-> "ok", body |-> body]

Idle ==
    [op |-> "none", pc |-> "idle", arg |-> NoBody, loc |-> NoBody,
     res |-> Failed("none"), seq |-> 0, overlap |-> {}]

InFlight(r) == r.pc \notin {"idle", "done"}

MutatingOps == {"create", "syncReviews", "update", "approve", "approveReview",
                "bulkApprove", "remove"}

\* a new request goes to a free process, the one that has been free longest
CanStart(p) ==
    /\ started < MaxOps
    /\ ~InFlight(reqs[p])
    /\ \A q \in Procs \ {p} :
          \/ InFlight(reqs[q])
          \/ reqs[p].seq < reqs[q].seq
          \/ (reqs[p].seq = reqs[q].seq /\ p = "p1")

\* process p takes a new request; the requests in flight overlap with it
Serve(p, op, pc, arg, loc, res) ==
    /\ started' = started + 1
    /\ reqs' = [q \in Procs |->
          IF q = p
          THEN [op |-> op, pc |-> pc, arg |-> arg, loc |-> loc, res |-> res,
                seq |-> started + 1,
                overlap |-> {reqs[r].seq : r \in {r \in Procs \ {p} : InFlight(reqs[r])}}]
          ELSE IF InFlight(reqs[q])
               THEN [reqs[q] EXCEPT !.overlap = @ \cup {started + 1}]
               ELSE reqs[q]]

Continue(p, pc, loc, res) ==
    /\ reqs' = [reqs EXCEPT ![p].pc = pc, ![p].loc = loc, ![p].res = res]
    /\ UNCHANGED started

\* the request of p returns res
Return(p, loc, res) ==
    /\ reqs' = [reqs EXCEPT ![p].pc = "done", ![p].loc = loc, ![p].res = res]
    /\ UNCHANGED started

\* _ids promised to requests that have still to insert
Reserved ==
    LET need(r) == IF r.op = "create" /\ r.pc = "insert" THEN 1
                   ELSE IF r.op = "syncReviews" /\ r.pc = "upsert"
                        THEN Len(r.arg.batch) - r.loc.i + 1
                        ELSE 0
    IN  need(reqs["p1"]) + need(reqs["p2"])

FreeIds == Len(ObjectIds) - (nextId - 1) - Reserved

\* history: the request numbered seq wrote the documents ids
Wrote(seq, ids) ==
    lastWriter' = [id \in ObjectIdSet |-> IF id \in ids THEN seq ELSE lastWriter[id]]

-----------------------------------------------------------------------------
(* Initial states: an empty cache in front of a collection that is empty or *)
(* holds one review, as created or as approved by approveReview at time 0   *)

SeedDto == [hostawayId |-> 1, listingId |-> "L1", status |-> "published", submittedAt |-> 1]
SeedCreated == NewDocument("a1", SeedDto)
SeedApproved ==
    ApplySet(SeedCreated,
             [isApprovedForPublic |-> TRUE, approvedBy |-> "admin", approvedAt |-> 0])

EmptyStore == [id \in ObjectIdSet |-> NoReview]
InitStores ==
    { EmptyStore,
      [EmptyStore EXCEPT !["a1"] = SeedCreated],
      [EmptyStore EXCEPT !["a1"] = SeedApproved] }

Init ==
    /\ store \in InitStores
    /\ nextId = 1 + Cardinality(StoredIds(store))
    /\ cache = [k \in CacheKeys |-> NoEntry]
    /\ reqs = [p \in Procs |-> Idle]
    /\ started = 0
    /\ lastWriter = [id \in ObjectIdSet |-> 0]

-----------------------------------------------------------------------------
(* ReviewsService.create *)

\* a check that finds no review
createExistingNone(st, dto) == {}

\* the existence check of create
createExisting(st, dto) == findByHostawayId(st, dto.hostawayId)

create(p, dto) ==
    /\ CanStart(p)
    /\ IF createExisting(store, dto) # {}
       THEN Serve(p, "create", "done", [dto |-> dto], NoBody, Failed("BadRequest"))
       ELSE /\ FreeIds >= 1
            /\ Serve(p, "create", "insert", [dto |-> dto],
                     [reviewData |-> transformCreateDtoToEntity(dto)], Pending)
    /\ UNCHANGED <<nextId, store, cache, lastWriter>>

\* ReviewsRepository.create: new Model(data).save()
repositoryCreate(p) ==
    /\ reqs[p].op = "create" /\ reqs[p].pc = "insert"
    /\ LET data == reqs[p].loc.reviewData
           id == ObjectIds[nextId]
           doc == NewDocument(id, data)
       IN  IF UniqueIndexAccepts(store, data.hostawayId)
           THEN /\ store' = [store EXCEPT ![id] = doc]
                /\ nextId' = nextId + 1
                /\ cache' = MarkOld(cache)
                /\ Wrote(reqs[p].seq, {id})
                /\ Continue(p, "invalidate", NoBody, Ok([review |-> id]))
           ELSE /\ Return(p, NoBody, Failed("DuplicateKey"))
                /\ UNCHANGED <<store, nextId, cache, lastWriter>>

-----------------------------------------------------------------------------
(* ReviewsService.syncReviews and ReviewsRepository.bulkUpsert *)

syncReviews(p, batch) ==
    /\ CanStart(p)
    /\ IF Len(batch) = 0
       THEN Serve(p, "syncReviews", "done", [batch |-> batch], NoBody, Failed("BadRequest"))
       ELSE /\ FreeIds >= Len(batch)
            /\ Serve(p, "syncReviews", "upsert", [batch |-> batch],
                     [i |-> 1, inserted |-> 0, updated |-> 0], Pending)
    /\ UNCHANGED <<nextId, store, cache, lastWriter>>

\* one updateOne { filter: {hostawayId}, update: {$set: review}, upsert: true }
bulkUpsert(p) ==
    /\ reqs[p].op = "syncReviews" /\ reqs[p].pc = "upsert"
    /\ LET loc == reqs[p].loc
           batch == reqs[p].arg.batch
           review == batch[loc.i]
           matched == findByHostawayId(store, review.hostawayId)
           last == loc.i = Len(batch)
           step(ins, upd) ==
               LET l == [i |-> loc.i + 1, inserted |-> loc.inserted + ins,
                         updated |-> loc.updated + upd]
               IN  IF last
                   THEN Continue(p, "invalidate", l,
                                 Ok([inserted |-> l.inserted, updated |-> l.updated,
                                     total |-> Len(batch)]))
                   ELSE Continue(p, "upsert", l, Pending)
       IN  IF matched = {}
           THEN LET id == ObjectIds[nextId] IN
                /\ store' = [store EXCEPT ![id] = NewDocument(id, review)]
                /\ nextId' = nextId + 1
                /\ step(1, 0)
                /\ Wrote(reqs[p].seq, {id})
           ELSE \E id \in matched :
                LET doc == ApplySet(store[id], review) IN
                /\ store' = [store EXCEPT ![id] = doc]
                /\ step(0, IF doc # store[id] THEN 1 ELSE 0)
                /\ Wrote(reqs[p].seq, {id})
                /\ UNCHANGED nextId
    /\ cache' = MarkOld(cache)

-----------------------------------------------------------------------------
(* ReviewsService.update, ReviewsController.approve, ReviewsService.approveReview *)

\* an update document that forgets to clear the approval metadata
UpdateDataKeepsStamp(review, dto, t) ==
    IF /\ "isApprovedForPublic" \in DOMAIN dto
       /\ dto.isApprovedForPublic
       /\ ~review.isApprovedForPublic
    THEN ("approvedAt" :> t) @@ dto
    ELSE dto

\* the update document ReviewsService.update builds at time t
UpdateData(review, dto, t) ==
    LET approving ==
            /\ "isApprovedForPublic" \in DOMAIN dto
            /\ dto.isApprovedForPublic
            /\ ~review.isApprovedForPublic
        unapproving ==
            /\ "isApprovedForPublic" \in DOMAIN dto
            /\ ~dto.isApprovedForPublic
        a == IF approving THEN ("approvedAt" :> t) @@ dto ELSE dto
    IN  IF unapproving
        THEN ("approvedAt" :> NullDate) @@ ("approvedBy" :> Null) @@ a
        ELSE a

serviceUpdate(p, op, arg, id, dto) ==
    /\ CanStart(p)
    /\ LET review == findById(store, id) IN
       IF review = NoReview
       THEN \E error \in LookupErrors(id) :
               Serve(p, op, "done", arg, NoBody, Failed(error))
       ELSE Serve(p, op, "write", arg,
                  [id |-> id, updateData |-> UpdateData(review, dto, arrival),
                   review |-> [isApprovedForPublic |-> review.isApprovedForPublic,
                               approvedAt |-> review.approvedAt]],
                  Pending)
    /\ UNCHANGED <<nextId, store, cache, lastWriter>>

\* PATCH /reviews/:id
update(p, id, dto) == serviceUpdate(p, "update", [id |-> id, dto |-> dto], id, dto)

\* the body ReviewsController.approve passes to update
approveDto(approvedBy) ==
    [isApprovedForPublic |-> TRUE,
     approvedBy |-> IF approvedBy = Absent THEN "admin" ELSE approvedBy]

\* PATCH /reviews/:id/approve
approve(p, id, approvedBy) ==
    serviceUpdate(p, "approve", [id |-> id, approvedBy |-> approvedBy, dto |-> approveDto(approvedBy)],
                  id, approveDto(approvedBy))

\* a test that takes no id for a hostawayId
isNumericNever(id) == FALSE

isNumeric(id) == id \in NumericIds
parseInt(id) == CASE id = "1" -> 1 [] id = "2" -> 2

\* the documents approveReview resolves id to
approveLookup(st, id) ==
    IF isNumeric(id)
    THEN findByHostawayId(st, parseInt(id))
    ELSE {d._id : d \in {findById(st, id)} \ {NoReview}}

approveReview(p, id, approvedBy) ==
    /\ CanStart(p)
    /\ LET found == approveLookup(store, id)
           arg == [id |-> id, approvedBy |-> approvedBy]
       IN  IF found = {}
           THEN Serve(p, "approveReview", "done", arg, NoBody, Failed("NotFound"))
           ELSE \E rid \in found :
                Serve(p, "approveReview", "write", arg,
                      [id |-> rid,
                       updateData |->
                          [isApprovedForPublic |-> TRUE,
                           approvedBy |-> IF approvedBy = Absent THEN "admin" ELSE approvedBy,
                           approvedAt |-> arrival]],
                      Pending)
    /\ UNCHANGED <<nextId, store, cache, lastWriter>>

\* ReviewsRepository.update: findByIdAndUpdate(id, updateData, { new: true })
repositoryUpdate(p) ==
    /\ reqs[p].op \in {"update", "approve", "approveReview"} /\ reqs[p].pc = "write"
    /\ LET id == reqs[p].loc.id
           kept == IF "review" \in DOMAIN reqs[p].loc
                   THEN [review |-> reqs[p].loc.review]
                   ELSE NoBody
       IN
       IF Stored(store, id)
       THEN LET doc == ApplySet(store[id], reqs[p].loc.updateData) IN
            /\ store' = [store EXCEPT ![id] = doc]
            /\ cache' = MarkOld(cache)
            /\ Wrote(reqs[p].seq, {id})
            /\ Continue(p, "invalidate", kept, Ok([review |-> id]))
       ELSE /\ Continue(p, "invalidate", kept, Ok([review |-> Null]))
            /\ UNCHANGED <<store, cache, lastWriter>>
    /\ UNCHANGED nextId

-----------------------------------------------------------------------------
(* ReviewsService.bulkApprove, ReviewsService.remove, invalidateCache *)

\* ReviewsRepository.bulkApprove: updateMany({_id: {$in: ids}}, {$set: ...})
bulkApproved(st, ids, approvedBy, t) ==
    [id \in ObjectIdSet |->
        IF id \in ids /\ Stored(st, id)
        THEN ApplySet(st[id], [isApprovedForPublic |-> TRUE, approvedBy |-> approvedBy,
                               approvedAt |-> t])
        ELSE st[id]]

bulkApprove(p, reviewIds, by) ==
    /\ CanStart(p)
    /\ LET approvedBy == IF by = Absent THEN "admin" ELSE by
           ids == {reviewIds[i] : i \in 1..Len(reviewIds)}
           arg == [reviewIds |-> reviewIds, approvedBy |-> by]
           after == bulkApproved(store, ids, approvedBy, arrival)
           modified == {id \in ObjectIdSet : after[id] # store[id]}
           matched == {id \in ids : Stored(store, id)}
       IN  IF Len(reviewIds) = 0
           THEN /\ Serve(p, "bulkApprove", "done", arg, NoBody, Failed("BadRequest"))
                /\ UNCHANGED <<store, cache, lastWriter>>
           ELSE /\ store' = after
                /\ cache' = IF matched # {} THEN MarkOld(cache) ELSE cache
                /\ Wrote(arrival, matched)
                /\ Serve(p, "bulkApprove", "invalidate", arg, NoBody,
                         Ok([approvedCount |-> Cardinality(modified)]))
    /\ UNCHANGED nextId

\* GET /reviews/:id
findOne(p, id) ==
    /\ CanStart(p)
    /\ LET review == findById(store, id) IN
       IF review = NoReview
       THEN Serve(p, "findOne", "done", [id |-> id], NoBody, Failed("NotFound"))
       ELSE Serve(p, "findOne", "done", [id |-> id], NoBody, Ok([review |-> id]))
    /\ UNCHANGED <<nextId, store, cache, lastWriter>>

\* findByIdAndDelete, then NotFound or invalidateCache
remove(p, id) ==
    /\ CanStart(p)
    /\ LET review == findById(store, id) IN
       IF review = NoReview
       THEN /\ Serve(p, "remove", "done", [id |-> id], NoBody, Failed("NotFound"))
            /\ UNCHANGED <<store, cache, lastWriter>>
       ELSE /\ store' = [store EXCEPT ![id] = NoReview]
            /\ cache' = MarkOld(cache)
            /\ Wrote(arrival, {id})
            /\ Serve(p, "remove", "invalidate", [id |-> id], NoBody,
                     Ok([deletedReview |-> id]))
    /\ UNCHANGED nextId

\* the last await of every mutating operation. The five del calls act as one
\* step: four of the five keys never hold an entry.
invalidate(p) ==
    /\ reqs[p].op \in MutatingOps /\ reqs[p].pc = "invalidate"
    /\ cache' = invalidateCache(cache)
    /\ Return(p, reqs[p].loc, reqs[p].res)
    /\ UNCHANGED <<nextId, store, lastWriter>>

-----------------------------------------------------------------------------
(* Cache-aside reads *)

\* cacheManager.get(key), then "if (cached) return cached"
cachedRead(p, op, arg, key, ttl) ==
    /\ CanStart(p)
    /\ LET cached == cacheGet(cache, key) IN
       IF cached # NoEntry
       THEN Serve(p, op, "done", arg, [hit |-> TRUE], Ok(cached.value))
       ELSE Serve(p, op, "query", arg, [key |-> key, hit |-> FALSE, ttl |-> ttl], Pending)
    /\ UNCHANGED <<nextId, store, cache, lastWriter>>

\* the query of a missed read returns value; next comes cacheManager.set
queried(p, value) ==
    /\ Continue(p, "set", [value |-> value] @@ reqs[p].loc, Pending)
    /\ UNCHANGED <<nextId, store, cache, lastWriter>>

getApprovedReviews(p, listingId, limit) ==
    cachedRead(p, "getApprovedReviews", [listingId |-> listingId, limit |-> limit],
               approvedKey(listingId, limit), APPROVED_TTL)

getApprovedReviewsQuery(p) ==
    /\ reqs[p].op = "getApprovedReviews" /\ reqs[p].pc = "query"
    /\ \E found \in findApprovedReviews(store, reqs[p].arg.listingId, reqs[p].arg.limit) :
          queried(p, [reviews |-> found])

getStatistics(p) ==
    cachedRead(p, "getStatistics", NoBody, CACHE_KEYS_STATISTICS, STATISTICS_TTL)

getStatisticsQuery(p) ==
    /\ reqs[p].op = "getStatistics" /\ reqs[p].pc = "query"
    /\ queried(p, statisticsOf(store))

getReviewsTrend(p, days) ==
    cachedRead(p, "getReviewsTrend", [days |-> days], trendKey(days), TREND_TTL)

getReviewsTrendQuery(p) ==
    /\ reqs[p].op = "getReviewsTrend" /\ reqs[p].pc = "query"
    /\ queried(p, reviewsTrendOf(store, reqs[p].arg.days, now))

getSummary(p, filters) ==
    cachedRead(p, "getSummary", [filters |-> filters], summaryKey(filters),
               DEFAULT_CACHE_TTL)

getSummaryQuery(p) ==
    /\ reqs[p].op = "getSummary" /\ reqs[p].pc = "query"
    /\ queried(p, summaryOf(store, reqs[p].arg.filters, now))

\* cacheManager.set(key, value, ttl); return value
cacheWrite(p) ==
    /\ reqs[p].pc = "set"
    /\ cache' = cacheSet(cache, reqs[p].loc.key, reqs[p].loc.value, reqs[p].loc.ttl)
    /\ Return(p, [hit |-> FALSE], Ok(reqs[p].loc.value))
    /\ UNCHANGED <<nextId, store, lastWriter>>

-----------------------------------------------------------------------------
(* Environment: the cache store drops an entry whose TTL ran out *)

Expire(k) ==
    /\ cache[k] # NoEntry
    /\ cache' = cacheDel(cache, {k})
    /\ UNCHANGED <<started, nextId, store, reqs, lastWriter>>

-----------------------------------------------------------------------------

Next ==
    \/ \E p \in Procs, dto \in CreateDtos : create(p, dto)
    \/ \E p \in Procs : repositoryCreate(p)
    \/ \E p \in Procs, batch \in SyncBatches : syncReviews(p, batch)
    \/ \E p \in Procs : bulkUpsert(p)
    \/ \E p \in Procs, id \in UpdateIds, dto \in UpdateDtos : update(p, id, dto)
    \/ \E p \in Procs, id \in IdStrings, by \in Approvers : approve(p, id, by)
    \/ \E p \in Procs, id \in IdStrings, by \in Approvers : approveReview(p, id, by)
    \/ \E p \in Procs : repositoryUpdate(p)
    \/ \E p \in Procs, ids \in BulkIdLists, by \in Approvers : bulkApprove(p, ids, by)
    \/ \E p \in Procs, id \in UpdateIds : remove(p, id)
    \/ \E p \in Procs, id \in UpdateIds : findOne(p, id)
    \/ \E p \in Procs : invalidate(p)
    \/ \E p \in Procs, l \in ListingArgs, n \in Limits : getApprovedReviews(p, l, n)
    \/ \E p \in Procs : getApprovedReviewsQuery(p)
    \/ \E p \in Procs : getStatistics(p)
    \/ \E p \in Procs : getStatisticsQuery(p)
    \/ \E p \in Procs, d \in DaysSet : getReviewsTrend(p, d)
    \/ \E p \in Procs : getReviewsTrendQuery(p)
    \/ \E p \in Procs, f \in AnalyticsFilters : getSummary(p, f)
    \/ \E p \in Procs : getSummaryQuery(p)
    \/ \E p \in Procs : cacheWrite(p)
    \/ \E k \in CacheKeys : Expire(k)

Spec == Init /\ [][Next]_vars

-----------------------------------------------------------------------------
(* Vocabulary of the properties *)

Done(p) == reqs[p].pc = "done"
Quiescent == \A p \in Procs : ~InFlight(reqs[p])

\* the requests last served by p and q ran at the same time
Concurrent(p, q) == reqs[q].seq \in reqs[p].overlap

\* this step is a step of the request of p; it is its first step; it returns
Moved(p) ==
    \/ reqs'[p].seq # reqs[p].seq
    \/ reqs'[p].pc # reqs[p].pc
    \/ reqs'[p].loc # reqs[p].loc
Arrives(p) == reqs'[p].seq # reqs[p].seq
Returns(p) == Moved(p) /\ reqs'[p].pc = "done"

\* a cache entry without its history
Entry(c, k) == IF c[k] = NoEntry THEN NoEntry ELSE [value |-> c[k].value, ttl |-> c[k].ttl]

ReviewsCacheKeys == {CACHE_KEYS_STATISTICS} \cup ApprovedKeys \cup TrendKeys

OrAdmin(by) == IF by = Absent THEN "admin" ELSE by

Unapproves(dto) == "isApprovedForPublic" \in DOMAIN dto /\ ~dto.isApprovedForPublic

-----------------------------------------------------------------------------
(* C1: public listing holds only approved, published reviews *)

\* the review with this id is stored, approved, published and of the listing
PubliclyVisible(st, id, listingId) ==
    /\ Stored(st, id)
    /\ st[id].isApprovedForPublic
    /\ st[id].status = "published"
    /\ listingId # Absent => st[id].listingId = listingId

\* C1: when a getApprovedReviews call returns after requests that ran one at
\* a time, every review in its answer is stored approved and published (and
\* of the listing asked for), whether the answer came from the store or
\* from the cache.
C1_ReturnedReviewsAreApproved ==
    [][\A p \in Procs :
          (/\ Returns(p)
           /\ reqs'[p].op = "getApprovedReviews"
           /\ \A q \in Procs : reqs'[q].overlap = {})
          => LET found == reqs'[p].res.body.reviews IN
             \A i \in 1..Len(found) :
                PubliclyVisible(store', found[i]._id, reqs'[p].arg.listingId)]_vars

-----------------------------------------------------------------------------
(* C2: mutations invalidate the statistics, listing and trend caches *)

\* C2: when no request is in flight, no entry of the statistics, approved
\* listing or trend caches was written before a store write that has
\* happened since.
C2_NoEntryOlderThanMutation ==
    Quiescent =>
        \A k \in ReviewsCacheKeys : cache[k] # NoEntry => ~cache[k].old

-----------------------------------------------------------------------------
(* C3: analytics entries are out of reach of ReviewsService *)

\* C3: a step of a mutating ReviewsService request leaves every analytics
\* cache entry as it was; an analytics entry goes away only in a step of
\* no request (its expiry); and a getSummary call that finds an entry
\* written before a later store write returns that entry's report unchanged.
C3_AnalyticsEntriesSurviveMutations ==
    [][/\ (\E p \in Procs : Moved(p) /\ reqs'[p].op \in MutatingOps)
          => \A k \in AnalyticsKeys : Entry(cache', k) = Entry(cache, k)
       /\ \A k \in AnalyticsKeys :
            (cache[k] # NoEntry /\ cache'[k] = NoEntry) => reqs' = reqs
       /\ \A p \in Procs :
            LET k == summaryKey(reqs'[p].arg.filters) IN
            (/\ Arrives(p)
             /\ reqs'[p].op = "getSummary"
             /\ cache[k] # NoEntry
             /\ cache[k].old)
            => /\ reqs'[p].pc = "done"
               /\ reqs'[p].res = Ok(cache[k].value)
               /\ cache' = cache]_vars

\* a summary cached at generatedAt, then an approveReview that changed the
\* store, then the same summary served again
C3_Witness ==
    \E p, q \in Procs :
        LET k == summaryKey(reqs[p].arg.filters) IN
        /\ Done(p) /\ reqs[p].op = "getSummary" /\ reqs[p].loc.hit
        /\ Done(q) /\ reqs[q].op = "approveReview" /\ reqs[q].res.status = "ok"
        /\ reqs[q].seq < reqs[p].seq
        /\ ~Concurrent(p, q)
        /\ cache[k] # NoEntry /\ cache[k].old
        /\ reqs[p].res.body = cache[k].value
        /\ reqs[p].res.body.generatedAt < reqs[q].seq
        /\ reqs[p].res.body # summaryOf(store, reqs[p].arg.filters,
                                          reqs[p].res.body.generatedAt)

-----------------------------------------------------------------------------
(* C4: the second getSummary is a cache hit *)

\* C4: a getSummary call that misses stores exactly the report it returns;
\* a live entry changes only by expiry; and a getSummary call that finds an
\* entry for its filters returns that entry's report (same generatedAt) in
\* the step of the lookup, with no store query.
C4_SecondSummaryFromCache ==
    [][/\ \A p \in Procs :
            (/\ Moved(p)
             /\ reqs[p].op = "getSummary"
             /\ reqs[p].pc = "set")
            => /\ reqs'[p].pc = "done"
               /\ Entry(cache', reqs[p].loc.key).value = reqs'[p].res.body
       /\ \A k \in AnalyticsKeys :
            (cache[k] # NoEntry /\ Entry(cache', k) # Entry(cache, k))
            => \/ cache'[k] = NoEntry /\ reqs' = reqs
               \/ \E p \in Procs :
                     /\ Moved(p) /\ reqs[p].op = "getSummary" /\ reqs[p].pc = "set"
                     /\ reqs[p].loc.key = k
       /\ \A p \in Procs :
            LET k == summaryKey(reqs'[p].arg.filters) IN
            (/\ Arrives(p)
             /\ reqs'[p].op = "getSummary"
             /\ cache[k] # NoEntry)
            => /\ reqs'[p].pc = "done"
               /\ reqs'[p].res = Ok(cache[k].value)
               /\ reqs'[p].res.body.generatedAt = cache[k].value.generatedAt
               /\ store' = store]_vars

\* two calls with the same filters, one after the other: the first computed
\* the report, the second returned the same report from the cache
C4_Witness ==
    \E p, q \in Procs :
        /\ Done(p) /\ reqs[p].op = "getSummary" /\ ~reqs[p].loc.hit
        /\ Done(q) /\ reqs[q].op = "getSummary" /\ reqs[q].loc.hit
        /\ reqs[p].arg = reqs[q].arg
        /\ reqs[p].seq < reqs[q].seq
        /\ ~Concurrent(p, q)
        /\ reqs[q].res = reqs[p].res
        /\ reqs[q].res.body.generatedAt < reqs[q].seq

-----------------------------------------------------------------------------
(* C5: hostawayId is unique in the store *)

\* C5: in every reachable state no two stored reviews have the same
\* hostawayId.
C5_HostawayIdUnique ==
    \A a, b \in ObjectIdSet :
        (Stored(store, a) /\ Stored(store, b) /\ a # b)
        => store[a].hostawayId # store[b].hostawayId

\* a create lost the race: its insert hit the unique index
C5_Witness ==
    \E p \in Procs :
        /\ Done(p) /\ reqs[p].op = "create"
        /\ reqs[p].res.status = "DuplicateKey"
        /\ findByHostawayId(store, reqs[p].arg.dto.hostawayId) # {}

-----------------------------------------------------------------------------
(* C6: create rejects a stored hostawayId and inserts one review otherwise *)

\* C6: a create call that finds its hostawayId stored fails with BadRequest
\* and leaves the store alone; a create call that finds it absent goes on
\* to insert, and its insert adds exactly one review with that hostawayId.
C6_CreateChecksThenInserts ==
    [][\A p \in Procs :
          /\ (Arrives(p) /\ reqs'[p].op = "create")
             => IF findByHostawayId(store, reqs'[p].arg.dto.hostawayId) # {}
                THEN /\ reqs'[p].pc = "done"
                     /\ reqs'[p].res = Failed("BadRequest")
                     /\ store' = store
                ELSE reqs'[p].pc = "insert"
          /\ (Moved(p) /\ reqs[p].op = "create" /\ reqs[p].pc = "insert")
             => LET hid == reqs[p].arg.dto.hostawayId IN
                /\ findByHostawayId(store, hid) = {}
                /\ Cardinality(findByHostawayId(store', hid)) = 1
                /\ StoredIds(store') = StoredIds(store) \cup findByHostawayId(store', hid)
                /\ \A id \in StoredIds(store) : store'[id] = store[id]
                /\ reqs'[p].res.status = "ok"]_vars

-----------------------------------------------------------------------------
(* C7: concurrent creates of one hostawayId *)

\* C7: of two create requests for the same hostawayId that ran
\* concurrently, the first of which found the identifier absent, one
\* succeeded and the other failed with BadRequest.
C7_LoserGetsBadRequest ==
    \A p, q \in Procs :
        (/\ Done(p) /\ reqs[p].op = "create"
         /\ Done(q) /\ reqs[q].op = "create"
         /\ reqs[p].seq < reqs[q].seq
         /\ Concurrent(p, q)
         /\ reqs[p].arg.dto.hostawayId = reqs[q].arg.dto.hostawayId
         /\ reqs[p].res.status # "BadRequest")
        => {reqs[p].res.status, reqs[q].res.status} = {"ok", "BadRequest"}

-----------------------------------------------------------------------------
(* C8: approval stamps approvedAt and approvedBy *)

\* the approver a request names
GivenApprover(r) ==
    IF r.op = "update"
    THEN IF "approvedBy" \in DOMAIN r.arg.dto THEN r.arg.dto.approvedBy ELSE Absent
    ELSE r.arg.approvedBy

\* C8: every step that turns a stored review from unapproved to approved
\* leaves it with approvedAt at the time of the request that did it and
\* approvedBy at the approver that request named, "admin" if it named none.
C8_ApprovalStampsMetadata ==
    [][\A id \in ObjectIdSet :
          (/\ Stored(store, id) /\ Stored(store', id)
           /\ ~store[id].isApprovedForPublic
           /\ store'[id].isApprovedForPublic)
          => \E p \in Procs :
                /\ Moved(p)
                /\ reqs'[p].op \in {"update", "approve", "approveReview", "bulkApprove"}
                /\ store'[id].approvedAt = reqs'[p].seq
                /\ store'[id].approvedBy = OrAdmin(GivenApprover(reqs'[p]))]_vars

-----------------------------------------------------------------------------
(* C9: update leaves approval metadata alone unless the flag changes *)

\* C9: a write of update(id, dto) that leaves the review's
\* isApprovedForPublic as it was leaves its approvedAt and approvedBy as
\* they were.
C9_UpdateKeepsMetadata ==
    [][\A p \in Procs :
          LET id == reqs[p].loc.id IN
          (/\ Moved(p)
           /\ reqs[p].op \in {"update", "approve"}
           /\ reqs[p].pc = "write"
           /\ Stored(store, id)
           /\ store'[id].isApprovedForPublic = store[id].isApprovedForPublic)
          => /\ store'[id].approvedAt = store[id].approvedAt
             /\ store'[id].approvedBy = store[id].approvedBy]_vars

-----------------------------------------------------------------------------
(* C10: approve, unapprove, approve again *)

\* the request of p has written review id and nothing wrote it since
LastWrote(p, id) ==
    /\ reqs[p].pc \in {"invalidate", "done"}
    /\ reqs[p].res.status = "ok"
    /\ reqs[p].res.body.review = id
    /\ Stored(store, id)
    /\ lastWriter[id] = reqs[p].seq

\* C10: a review last written by an update with isApprovedForPublic=false
\* is unapproved with approvedAt and approvedBy null; a review last written
\* by an approve that found it unapproved, or by an approveReview, is
\* approved, with approvedBy the approver named (or "admin") and approvedAt
\* the time of that approve.
C10_UnapproveClearsReapproveRestamps ==
    \A p \in Procs, id \in ObjectIdSet :
        /\ (/\ reqs[p].op = "update"
            /\ LastWrote(p, id)
            /\ Unapproves(reqs[p].arg.dto))
           => /\ ~store[id].isApprovedForPublic
              /\ store[id].approvedAt = NullDate
              /\ store[id].approvedBy = Null
        /\ (/\ reqs[p].op \in {"approve", "approveReview"}
            /\ LastWrote(p, id)
            /\ reqs[p].op = "approve" => ~reqs[p].loc.review.isApprovedForPublic)
           => /\ store[id].isApprovedForPublic
              /\ store[id].approvedBy = OrAdmin(reqs[p].arg.approvedBy)
              /\ store[id].approvedAt = reqs[p].seq

\* a review approved at some time, unapproved by an update that returned,
\* then approved again by a later request: approvedAt is the later time
C10_Witness ==
    \E p, q \in Procs, id \in ObjectIdSet :
        /\ Done(q) /\ reqs[q].op = "update" /\ Unapproves(reqs[q].arg.dto)
        /\ reqs[q].res.status = "ok" /\ reqs[q].res.body.review = id
        /\ reqs[q].loc.review.isApprovedForPublic
        /\ Done(p) /\ reqs[p].op \in {"approve", "approveReview"}
        /\ LastWrote(p, id)
        /\ reqs[q].seq < reqs[p].seq
        /\ ~Concurrent(p, q)
        /\ store[id].isApprovedForPublic
        /\ store[id].approvedAt = reqs[p].seq
        /\ store[id].approvedAt > reqs[q].loc.review.approvedAt

-----------------------------------------------------------------------------
(* C11: a second bulkApprove counts only what it newly approves *)

\* C11: a bulkApprove call that follows another bulkApprove call sharing
\* ids with it raises no error and returns as approvedCount the number of
\* its ids whose review was stored unapproved just before the call.
C11_SecondBulkApproveCountsNewOnly ==
    [][\A p \in Procs :
          LET ids == {reqs'[p].arg.reviewIds[i] : i \in 1..Len(reqs'[p].arg.reviewIds)} IN
          (/\ Arrives(p)
           /\ reqs'[p].op = "bulkApprove"
           /\ \E q \in Procs :
                 /\ reqs[q].op = "bulkApprove" /\ Done(q) /\ reqs[q].res.status = "ok"
                 /\ \E i \in 1..Len(reqs[q].arg.reviewIds) : reqs[q].arg.reviewIds[i] \in ids)
          => /\ reqs'[p].res.status = "ok"
             /\ reqs'[p].res.body.approvedCount =
                   Cardinality({id \in ids : Stored(store, id)
                                             /\ ~store[id].isApprovedForPublic})]_vars

-----------------------------------------------------------------------------
(* C12: approveReview resolves its id *)

-----------------------------------------------------------------------------
(* C13: the PATCH approve route against approveReview *)

\* C13: the PATCH approve route called with (id, approvedBy) does what
\* approveReview(id, approvedBy) does in the same state: NotFound in the
\* same cases, the same review resolved, and the same isApprovedForPublic,
\* approvedBy and approvedAt written to it.
C13_ApproveRouteIsApproveReview ==
    [][\A p \in Procs :
          (Arrives(p) /\ reqs'[p].op = "approve")
          => LET found == approveLookup(store, reqs'[p].arg.id) IN
             IF found = {}
             THEN reqs'[p].pc = "done" /\ reqs'[p].res.status \in LookupErrors(reqs'[p].arg.id)
             ELSE /\ reqs'[p].pc = "write"
                  /\ reqs'[p].loc.id \in found
                  /\ LET after == ApplySet(store[reqs'[p].loc.id], reqs'[p].loc.updateData) IN
                     /\ after.isApprovedForPublic
                     /\ after.approvedBy = OrAdmin(reqs'[p].arg.approvedBy)
                     /\ after.approvedAt = reqs'[p].seq]_vars

-----------------------------------------------------------------------------
(* C14: approval is undone by an explicit unapprove only *)

\* C14: a step that leaves a stored approved review stored moves it to
\* unapproved, or clears its approvedAt or approvedBy, only when it is the
\* write of an update whose dto has isApprovedForPublic = false.
C14_OnlyUnapproveUndoesApproval ==
    [][\A id \in ObjectIdSet :
          (/\ Stored(store, id) /\ Stored(store', id)
           /\ store[id].isApprovedForPublic
           /\ \/ ~store'[id].isApprovedForPublic
              \/ store'[id].approvedAt = NullDate /\ store[id].approvedAt # NullDate
              \/ store'[id].approvedBy = Null /\ store[id].approvedBy # Null)
          => \E p \in Procs :
                /\ Moved(p)
                /\ reqs[p].op = "update" /\ reqs[p].pc = "write"
                /\ reqs[p].loc.id = id
                /\ Unapproves(reqs[p].arg.dto)]_vars

\* a syncReviews upsert rewrote an approved review, which is still approved
C14_Witness ==
    \E p \in Procs, id \in ObjectIdSet :
        /\ Done(p) /\ reqs[p].op = "syncReviews" /\ reqs[p].res.status = "ok"
        /\ reqs[p].res.body.updated > 0
        /\ Stored(store, id)
        /\ lastWriter[id] = reqs[p].seq
        /\ store[id].isApprovedForPublic
        /\ store[id].approvedAt # NullDate
        /\ store[id].approvedBy # Null
        /\ store[id].status = "pending"

-----------------------------------------------------------------------------
(* C15: the counts of syncReviews *)

-----------------------------------------------------------------------------
(* averageCategoryRating: the writes of a review with its category ratings. *)
(* A number is a fraction [n, d] in lowest terms, so that a mean and its    *)
(* rounding to two decimals are told apart.                                 *)

MaxSaves == 3

RECURSIVE GCD(_, _)
GCD(a, b) == IF b = 0 THEN a ELSE GCD(b, a % b)

Rat(n, d) == LET g == GCD(n, d) IN [n |-> n \div g, d |-> d \div g]

\* a field no value was given for
NoNumber == [undefined |-> TRUE]

RECURSIVE SumRatings(_)
SumRatings(cats) == IF Len(cats) = 0 THEN 0 ELSE Head(cats) + SumRatings(Tail(cats))

\* sum / reviewCategories.length
MeanRating(cats) == Rat(SumRatings(cats), Len(cats))

\* parseFloat(x.toFixed(2))
ToFixed2(x) == Rat((200 * x.n + x.d) \div (2 * x.d), 100)

\* HostawayService.calculateAverageRating
calculateAverageRating(cats) ==
    IF Len(cats) = 0 THEN Rat(0, 1) ELSE ToFixed2(MeanRating(cats))

\* ReviewSchema.pre('save')
preSave(doc) ==
    IF Len(doc.reviewCategories) > 0
    THEN [doc EXCEPT !.averageCategoryRating = MeanRating(doc.reviewCategories)]
    ELSE doc

\* the ratings (0..10) of the categories of a review
CategoryLists == { <<>>, <<10>>, <<8, 9>>, <<10, 9, 9>> }

\* a new document of the ratings collection; averageCategoryRating has no default
NewRated(id, data) ==
    [_id |-> id,
     hostawayId |-> data.hostawayId,
     reviewCategories |-> data.reviewCategories,
     averageCategoryRating |->
         IF "averageCategoryRating" \in DOMAIN data
         THEN data.averageCategoryRating ELSE NoNumber,
     managerNotes |-> Null]

\* POST /reviews bodies, as transformCreateDtoToEntity passes them on
RatedCreateDtos ==
    [hostawayId : HostawayIds, reviewCategories : CategoryLists]

\* records of a sync batch: normalized by HostawayService, or with an
\* averageCategoryRating of the caller's
RatedSyncRecords ==
    UNION { { [hostawayId |-> h, reviewCategories |-> c,
               averageCategoryRating |-> calculateAverageRating(c)],
              [hostawayId |-> h, reviewCategories |-> c,
               averageCategoryRating |-> Rat(5, 1)] } :
            h \in HostawayIds, c \in CategoryLists }

RatedRequest(op, arg, res) ==
    [op |-> op, pc |-> "done", arg |-> arg, loc |-> NoBody, res |-> res,
     seq |-> started + 1, overlap |-> {}]

RatingsInit ==
    /\ store = EmptyStore
    /\ nextId = 1
    /\ cache = [k \in CacheKeys |-> NoEntry]
    /\ reqs = [p \in Procs |-> Idle]
    /\ started = 0
    /\ lastWriter = [id \in ObjectIdSet |-> 0]

\* ReviewsService.create and ReviewsRepository.create: check, new Model(data).save()
createRated(p, dto) ==
    /\ started < MaxSaves
    /\ IF findByHostawayId(store, dto.hostawayId) # {}
       THEN /\ reqs' = [reqs EXCEPT ![p] = RatedRequest("create", dto, Failed("BadRequest"))]
            /\ UNCHANGED <<store, nextId, lastWriter>>
       ELSE /\ nextId <= Len(ObjectIds)
            /\ LET id == ObjectIds[nextId] IN
               /\ store' = [store EXCEPT ![id] = preSave(NewRated(id, dto))]
               /\ reqs' = [reqs EXCEPT ![p] = RatedRequest("create", dto, Ok([review |-> id]))]
               /\ Wrote(started + 1, {id})
            /\ nextId' = nextId + 1
    /\ started' = started + 1
    /\ UNCHANGED cache

\* ReviewsRepository.bulkUpsert for one record: updateOne $set, upsert
upsertRated(p, record) ==
    /\ started < MaxSaves
    /\ LET matched == findByHostawayId(store, record.hostawayId) IN
       IF matched = {}
       THEN /\ nextId <= Len(ObjectIds)
            /\ LET id == ObjectIds[nextId] IN
               /\ store' = [store EXCEPT ![id] = NewRated(id, record)]
               /\ reqs' = [reqs EXCEPT ![p] =
                              RatedRequest("syncReviews", record, Ok([review |-> id]))]
               /\ Wrote(started + 1, {id})
            /\ nextId' = nextId + 1
       ELSE /\ \E id \in matched :
               /\ store' = [store EXCEPT ![id] = ApplySet(store[id], record)]
               /\ reqs' = [reqs EXCEPT ![p] =
                              RatedRequest("syncReviews", record, Ok([review |-> id]))]
               /\ Wrote(started + 1, {id})
            /\ UNCHANGED nextId
    /\ started' = started + 1
    /\ UNCHANGED cache

\* ReviewsService.update with managerNotes: findByIdAndUpdate
updateRated(p, id) ==
    /\ started < MaxSaves
    /\ Stored(store, id)
    /\ store' = [store EXCEPT ![id] = ApplySet(store[id], [managerNotes |-> "note"])]
    /\ reqs' = [reqs EXCEPT ![p] =
                   RatedRequest("update", [id |-> id], Ok([review |-> id]))]
    /\ Wrote(started + 1, {id})
    /\ started' = started + 1
    /\ UNCHANGED <<nextId, cache>>

RatingsNext ==
    \/ \E dto \in RatedCreateDtos : createRated("p1", dto)
    \/ \E record \in RatedSyncRecords : upsertRated("p1", record)
    \/ \E id \in UpdateIds : updateRated("p1", id)

RatingsSpec == RatingsInit /\ [][RatingsNext]_vars

\* C16: every stored review's averageCategoryRating is the mean of its
\* stored category ratings rounded to two decimals, and 0 when it has no
\* categories.
C16_AverageIsRoundedMean ==
    \A id \in ObjectIdSet :
        Stored(store, id)
        => store[id].averageCategoryRating = calculateAverageRating(store[id].reviewCategories)

-----------------------------------------------------------------------------
(* ReviewsRepository.findWithFilters: filters, sorting and pagination over  *)
(* a collection that another request may write between its two queries.    *)
(* Ratings are whole numbers here and dates are days.                       *)

MaxFinds == 2

DefaultPage == 1
DefaultPageLimit == 20

\* the reviews the collection may hold, per _id
FilterDocs(id) ==
    CASE id = "a1" ->
           { [_id |-> "a1", listingId |-> "L1", channel |-> "hostaway", status |-> "published",
              isApprovedForPublic |-> TRUE, averageCategoryRating |-> 9, submittedAt |-> 1],
             [_id |-> "a1", listingId |-> "L1", channel |-> "hostaway", status |-> "published",
              isApprovedForPublic |-> TRUE, averageCategoryRating |-> 8, submittedAt |-> 3] }
      [] id = "b2" ->
           { [_id |-> "b2", listingId |-> "L1", channel |-> "airbnb", status |-> "pending",
              isApprovedForPublic |-> FALSE, averageCategoryRating |-> 7, submittedAt |-> 2],
             [_id |-> "b2", listingId |-> "L2", channel |-> "airbnb", status |-> "published",
              isApprovedForPublic |-> TRUE, averageCategoryRating |-> 9, submittedAt |-> 2] }
      [] OTHER ->
           { [_id |-> "c3", listingId |-> "L2", channel |-> "hostaway", status |-> "published",
              isApprovedForPublic |-> FALSE, averageCategoryRating |-> 9, submittedAt |-> 2],
             [_id |-> "c3", listingId |-> "L1", channel |-> "hostaway", status |-> "draft",
              isApprovedForPublic |-> FALSE, averageCategoryRating |-> 10, submittedAt |-> 1] }

FilterStores == {st \in [ObjectIdSet -> UNION {FilterDocs(id) \cup {NoReview} : id \in ObjectIdSet}] :
                    \A id \in ObjectIdSet : st[id] \in FilterDocs(id) \cup {NoReview}}

\* FilterReviewDto without page and limit
FilterParams ==
    { [listingId |-> "L1"],
      [channel |-> "airbnb"],
      [status |-> "published"],
      [minRating |-> 8],
      [isApprovedForPublic |-> FALSE],
      [startDate |-> 2],
      [endDate |-> 1],
      [startDate |-> 2, endDate |-> 2],
      [listingId |-> "L1", status |-> "published", minRating |-> 9],
      [sortOrder |-> "asc"],
      [sortBy |-> "averageCategoryRating", sortOrder |-> "asc"],
      [minRating |-> 8, sortBy |-> "averageCategoryRating"] }

Pagings ==
    { [page |-> 1, limit |-> 1], [page |-> 2, limit |-> 1], [page |-> 3, limit |-> 1],
      [page |-> 1, limit |-> 2], [page |-> 2, limit |-> 2] }

\* the FilterReviewDto objects findWithFilters is called with
FilterDtos ==
    {[sortOrder |-> "desc"]} \cup FilterParams \cup Pagings
      \cup {f @@ g : f \in FilterParams, g \in Pagings}

\* const { page = 1, ... } = filters
Param(filters, name, default) ==
    IF name \in DOMAIN filters THEN filters[name] ELSE default

\* a query without the channel condition
buildFilterQueryNoChannel(filters) ==
    [f \in DOMAIN filters \cap {"listingId", "status", "isApprovedForPublic"} |-> filters[f]]
      @@ (IF "minRating" \in DOMAIN filters
          THEN "averageCategoryRating" :> [gte |-> filters.minRating]
          ELSE << >>)
      @@ (IF DOMAIN filters \cap {"startDate", "endDate"} # {}
          THEN "submittedAt" :>
                  ((IF "startDate" \in DOMAIN filters
                    THEN "gte" :> filters.startDate ELSE << >>)
                   @@ (IF "endDate" \in DOMAIN filters
                       THEN "lte" :> filters.endDate ELSE << >>))
          ELSE << >>)

\* the FilterQuery: field -> value to equal, or -> [gte, lte] bounds
buildFilterQuery(filters) ==
    [f \in DOMAIN filters \cap {"listingId", "channel", "status", "isApprovedForPublic"}
        |-> filters[f]]
      @@ (IF "minRating" \in DOMAIN filters
          THEN "averageCategoryRating" :> [gte |-> filters.minRating]
          ELSE << >>)
      @@ (IF DOMAIN filters \cap {"startDate", "endDate"} # {}
          THEN "submittedAt" :>
                  ((IF "startDate" \in DOMAIN filters
                    THEN "gte" :> filters.startDate ELSE << >>)
                   @@ (IF "endDate" \in DOMAIN filters
                       THEN "lte" :> filters.endDate ELSE << >>))
          ELSE << >>)

\* a document matches a FilterQuery
MatchesQuery(doc, query) ==
    /\ \A f \in DOMAIN query \cap {"listingId", "channel", "status", "isApprovedForPublic"} :
          doc[f] = query[f]
    /\ \A f \in DOMAIN query \cap {"averageCategoryRating", "submittedAt"} :
          /\ "gte" \in DOMAIN query[f] => doc[f] >= query[f].gte
          /\ "lte" \in DOMAIN query[f] => doc[f] <= query[f].lte

findIds(st, query) == {id \in StoredIds(st) : MatchesQuery(st[id], query)}

\* .sort({ [sortBy]: 1 | -1 }): the orders the ids may come in (ties in any order)
SortedBy(st, ids, sortBy, sortOrder) ==
    LET n == Cardinality(ids) IN
    {s \in [1..n -> ids] :
        /\ \A i, j \in 1..n : i # j => s[i] # s[j]
        /\ \A i, j \in 1..n :
              i < j => IF sortOrder = "asc"
                       THEN st[s[i]][sortBy] <= st[s[j]][sortBy]
                       ELSE st[s[i]][sortBy] >= st[s[j]][sortBy]}

\* .skip(skip).limit(limit)
SkipLimit(s, skip, limit) ==
    [i \in 1..(IF Len(s) <= skip THEN 0 ELSE Min(limit, Len(s) - skip)) |-> s[skip + i]]

\* the pages find(query).sort().skip().limit() may return
findPages(st, filters) ==
    LET page == Param(filters, "page", DefaultPage)
        limit == Param(filters, "limit", DefaultPageLimit)
        skip == (page - 1) * limit
        ids == findIds(st, buildFilterQuery(filters))
    IN  { SkipLimit([i \in 1..Len(s) |-> st[s[i]]], skip, limit) :
            s \in SortedBy(st, ids, Param(filters, "sortBy", "submittedAt"),
                           Param(filters, "sortOrder", "desc")) }

countDocuments(st, filters) == Cardinality(findIds(st, buildFilterQuery(filters)))

\* Math.floor(total / limit)
FloorDiv(total, limit) == total \div limit

\* Math.ceil(total / limit)
Ceil(total, limit) == (total + limit - 1) \div limit

\* the pagination object of the result
pagination(filters, total) ==
    LET page == Param(filters, "page", DefaultPage)
        limit == Param(filters, "limit", DefaultPageLimit)
    IN  [page |-> page,
         limit |-> limit,
         total |-> total,
         totalPages |-> Ceil(total, limit),
         hasNextPage |-> page < Ceil(total, limit),
         hasPrevPage |-> page > 1]

FilterInit ==
    /\ store \in FilterStores
    /\ nextId = 1
    /\ cache = [k \in CacheKeys |-> NoEntry]
    /\ reqs = [p \in Procs |-> Idle]
    /\ started = 0
    /\ lastWriter = [id \in ObjectIdSet |-> 0]

\* findWithFilters starts its two queries (Promise.all)
findWithFilters(p, filters) ==
    /\ started < MaxFinds
    /\ ~InFlight(reqs[p])
    /\ reqs' = [reqs EXCEPT ![p] =
          [op |-> "findWithFilters", pc |-> "queries", arg |-> filters,
           loc |-> [todo |-> {"find", "countDocuments"}, data |-> << >>, total |-> 0],
           res |-> Pending, seq |-> started + 1, overlap |-> {}]]
    /\ started' = started + 1
    /\ UNCHANGED <<store, nextId, cache, lastWriter>>

\* one of the two queries completes; after the second the result is returned
queryCompletes(p, name, loc) ==
    /\ reqs[p].op = "findWithFilters" /\ reqs[p].pc = "queries"
    /\ name \in reqs[p].loc.todo
    /\ IF loc.todo = {}
       THEN Return(p, loc, Ok([data |-> loc.data,
                               pagination |-> pagination(reqs[p].arg, loc.total)]))
       ELSE Continue(p, "queries", loc, Pending)
    /\ UNCHANGED <<store, nextId, cache, lastWriter>>

findPage(p) ==
    \E data \in findPages(store, reqs[p].arg) :
        queryCompletes(p, "find",
                       [reqs[p].loc EXCEPT !.todo = @ \ {"find"}, !.data = data])

countPage(p) ==
    queryCompletes(p, "countDocuments",
                   [reqs[p].loc EXCEPT !.todo = @ \ {"countDocuments"},
                                       !.total = countDocuments(store, reqs[p].arg)])

\* another request deletes a review (ReviewsRepository.delete)
deleteReview(id) ==
    /\ started < MaxFinds
    /\ Stored(store, id)
    /\ store' = [store EXCEPT ![id] = NoReview]
    /\ Wrote(started + 1, {id})
    /\ started' = started + 1
    /\ UNCHANGED <<nextId, cache, reqs>>

FilterNext ==
    \/ \E filters \in FilterDtos : findWithFilters("p1", filters)
    \/ findPage("p1")
    \/ countPage("p1")
    \/ \E id \in ObjectIdSet : deleteReview(id)

FilterSpec == FilterInit /\ [][FilterNext]_vars

-----------------------------------------------------------------------------
(* C17: what findWithFilters returns *)

\* the review satisfies every predicate the filters supply
Satisfies(doc, filters) ==
    /\ "listingId" \in DOMAIN filters => doc.listingId = filters.listingId
    /\ "channel" \in DOMAIN filters => doc.channel = filters.channel
    /\ "status" \in DOMAIN filters => doc.status = filters.status
    /\ "isApprovedForPublic" \in DOMAIN filters
          => doc.isApprovedForPublic = filters.isApprovedForPublic
    /\ "minRating" \in DOMAIN filters => doc.averageCategoryRating >= filters.minRating
    /\ "startDate" \in DOMAIN filters => filters.startDate <= doc.submittedAt
    /\ "endDate" \in DOMAIN filters => doc.submittedAt <= filters.endDate

\* the query named name of the request of p completes in this step
Completes(p, name) ==
    /\ reqs[p].op = "findWithFilters" /\ reqs[p].pc = "queries"
    /\ name \in reqs[p].loc.todo
    /\ name \notin reqs'[p].loc.todo

\* C17: the page findWithFilters reads holds only stored reviews that
\* satisfy all supplied predicates, in the order of sortBy / sortOrder
\* (submittedAt descending by default); the total it reads is the number of
\* stored reviews satisfying them; and it returns that page and that total.
C17_FilteredSortedPage ==
    [][\A p \in Procs :
          LET filters == reqs[p].arg
              sortBy == IF "sortBy" \in DOMAIN filters THEN filters.sortBy ELSE "submittedAt"
              asc == "sortOrder" \in DOMAIN filters /\ filters.sortOrder = "asc"
              data == reqs'[p].loc.data
          IN
          /\ Completes(p, "find")
             => /\ \A i \in 1..Len(data) :
                      data[i] \in Docs(store) /\ Satisfies(data[i], filters)
                /\ \A i, j \in 1..Len(data) :
                      i < j => IF asc THEN data[i][sortBy] <= data[j][sortBy]
                               ELSE data[i][sortBy] >= data[j][sortBy]
          /\ Completes(p, "countDocuments")
             => reqs'[p].loc.total =
                   Cardinality({id \in ObjectIdSet :
                                   Stored(store, id) /\ Satisfies(store[id], filters)})
          /\ (Moved(p) /\ reqs[p].op = "findWithFilters" /\ reqs'[p].pc = "done")
             => /\ reqs'[p].res.status = "ok"
                /\ reqs'[p].res.body.data = reqs'[p].loc.data
                /\ reqs'[p].res.body.pagination.total = reqs'[p].loc.total]_vars

\* a call filtered by minRating returned two reviews in order and left a
\* stored review out
C17_Witness ==
    \E p \in Procs :
        /\ Done(p) /\ reqs[p].op = "findWithFilters"
        /\ "minRating" \in DOMAIN reqs[p].arg
        /\ Len(reqs[p].res.body.data) = 2
        /\ reqs[p].res.body.pagination.total = 2
        /\ reqs[p].res.body.data[1].averageCategoryRating
              # reqs[p].res.body.data[2].averageCategoryRating
        /\ \E id \in ObjectIdSet : Stored(store, id) /\ ~Satisfies(store[id], reqs[p].arg)

-----------------------------------------------------------------------------
(* C18: the pagination flags *)

\* C18: a result of findWithFilters for page, limit and total has
\* totalPages = ceil(total / limit), hasPrevPage iff page > 1, hasNextPage
\* iff page * limit < total, and at most limit records.
C18_PaginationFlags ==
    \A p \in Procs :
        (Done(p) /\ reqs[p].op = "findWithFilters")
        => LET pg == reqs[p].res.body.pagination IN
           /\ pg.page >= 1 /\ pg.limit >= 1 /\ pg.total >= 0
           /\ pg.totalPages * pg.limit >= pg.total
           /\ (pg.totalPages - 1) * pg.limit < pg.total \/ pg.totalPages = 0
           /\ pg.totalPages >= 0
           /\ pg.hasPrevPage <=> pg.page > 1
           /\ pg.hasNextPage <=> pg.page * pg.limit < pg.total
           /\ Len(reqs[p].res.body.data) <= pg.limit

\* the last page of a total that limit does not divide: no next page
C18_Witness ==
    \E p \in Procs :
        /\ Done(p) /\ reqs[p].op = "findWithFilters"
        /\ LET pg == reqs[p].res.body.pagination IN
           /\ pg.total % pg.limit # 0
           /\ pg.totalPages > 1
           /\ pg.page = pg.totalPages
           /\ ~pg.hasNextPage
           /\ pg.hasPrevPage
           /\ Len(reqs[p].res.body.data) = 1

-----------------------------------------------------------------------------
(* AnalyticsService.getPropertyBreakdown: the aggregation by listing and    *)
(* its performance tier. Ratings are fractions (Rat).                       *)

MaxReports == 2

AddRat(x, y) == Rat(x.n * y.d + y.n * x.d, x.d * y.d)

\* x >= y
GteRat(x, y) == x.n * y.d >= y.n * x.d

RECURSIVE SumAverages(_)
SumAverages(docs) ==
    IF docs = {} THEN Rat(0, 1)
    ELSE LET doc == CHOOSE d \in docs : TRUE
         IN  AddRat(doc.averageCategoryRating, SumAverages(docs \ {doc}))

\* $avg: '$averageCategoryRating' over a group
AvgRating(docs) ==
    LET sum == SumAverages(docs) IN Rat(sum.n, sum.d * Cardinality(docs))

\* { $round: [x, 2] }: to the nearest hundredth; a value halfway between two
\* hundredths is held as a binary fraction just below or just above it, and
\* goes either way
Round2(x) ==
    LET h == (100 * x.n) \div x.d
        r == (100 * x.n) % x.d
    IN  IF 2 * r < x.d THEN {Rat(h, 100)}
        ELSE IF 2 * r > x.d THEN {Rat(h + 1, 100)}
        ELSE {Rat(h, 100), Rat(h + 1, 100)}

\* $project performance: nested $cond on '$avgRating', the average of the group
performance(avgRating) ==
    IF GteRat(avgRating, Rat(85, 10)) THEN "excellent"
    ELSE IF GteRat(avgRating, Rat(7, 1)) THEN "good"
    ELSE IF GteRat(avgRating, Rat(5, 1)) THEN "fair"
    ELSE "needs_improvement"

\* averageCategoryRating values around the tier thresholds
TierRatings ==
    { Rat(849, 100), Rat(850, 100), Rat(699, 100), Rat(700, 100),
      Rat(499, 100), Rat(500, 100) }

TierDocs(id) ==
    { [_id |-> id, listingId |-> l, channel |-> "hostaway", submittedAt |-> 1,
       isApprovedForPublic |-> FALSE, averageCategoryRating |-> a] :
        l \in (IF id = "c3" THEN Listings ELSE {"L1"}), a \in TierRatings }

TierStores ==
    {st \in [ObjectIdSet -> UNION {TierDocs(id) \cup {NoReview} : id \in ObjectIdSet}] :
        \A id \in ObjectIdSet : st[id] \in TierDocs(id) \cup {NoReview}}

propertyKey(filters) == CACHE_PREFIX \o ":by-property:" \o stringify(filters)
PropertyKeys == {propertyKey(f) : f \in AnalyticsFilters}

\* $match: date filter, channel, listingId
propertyMatch(st, filters) ==
    {d \in Docs(st) :
        /\ "listingId" \in DOMAIN filters => d.listingId = filters.listingId
        /\ "channel" \in DOMAIN filters => d.channel = filters.channel
        /\ "startDate" \in DOMAIN filters => d.submittedAt >= filters.startDate
        /\ "endDate" \in DOMAIN filters => d.submittedAt <= filters.endDate}

\* $group by listing, $project: the results the aggregation may give
propertyBreakdowns(st, filters) ==
    LET matched == propertyMatch(st, filters)
        listings == {d.listingId : d \in matched}
        group(l) == {d \in matched : d.listingId = l}
    IN  { [l \in listings |->
              [listingId |-> l,
               totalReviews |-> Cardinality(group(l)),
               approvedReviews |-> Cardinality({d \in group(l) : d.isApprovedForPublic}),
               avgRating |-> rounded[l],
               performance |-> performance(AvgRating(group(l)))]] :
          rounded \in {r \in [listings -> UNION {Round2(AvgRating(group(l))) : l \in listings}] :
                          \A l \in listings : r[l] \in Round2(AvgRating(group(l)))} }

TierInit ==
    /\ store \in TierStores
    /\ nextId = 1
    /\ cache = [k \in PropertyKeys |-> NoEntry]
    /\ reqs = [p \in Procs |-> Idle]
    /\ started = 0
    /\ lastWriter = [id \in ObjectIdSet |-> 0]

getPropertyBreakdown(p, filters) ==
    /\ started < MaxReports
    /\ LET key == propertyKey(filters)
           cached == cacheGet(cache, key)
       IN  IF cached # NoEntry
           THEN /\ reqs' = [reqs EXCEPT ![p] =
                      [op |-> "getPropertyBreakdown", pc |-> "done",
                       arg |-> [filters |-> filters], loc |-> [hit |-> TRUE],
                       res |-> Ok(cached.value), seq |-> started + 1, overlap |-> {}]]
                /\ UNCHANGED cache
           ELSE \E properties \in propertyBreakdowns(store, filters) :
                  LET result == [properties |-> properties,
                                 totalProperties |-> Cardinality(DOMAIN properties),
                                 generatedAt |-> started + 1]
                  IN  /\ cache' = cacheSet(cache, key, result, DEFAULT_CACHE_TTL)
                      /\ reqs' = [reqs EXCEPT ![p] =
                            [op |-> "getPropertyBreakdown", pc |-> "done",
                             arg |-> [filters |-> filters], loc |-> [hit |-> FALSE],
                             res |-> Ok(result), seq |-> started + 1, overlap |-> {}]]
    /\ started' = started + 1
    /\ UNCHANGED <<store, nextId, lastWriter>>

\* another request deletes a review between two reports
deleteRated(id) ==
    /\ started < MaxReports
    /\ Stored(store, id)
    /\ store' = [store EXCEPT ![id] = NoReview]
    /\ Wrote(started + 1, {id})
    /\ cache' = MarkOld(cache)
    /\ started' = started + 1
    /\ UNCHANGED <<nextId, reqs>>

TierNext ==
    \/ \E filters \in AnalyticsFilters : getPropertyBreakdown("p1", filters)
    \/ \E id \in ObjectIdSet : deleteRated(id)

TierSpec == TierInit /\ [][TierNext]_vars

\* the tier the claim gives a reported average
TierOf(avgRating) ==
    IF GteRat(avgRating, Rat(85, 10)) THEN "excellent"
    ELSE IF GteRat(avgRating, Rat(7, 1)) THEN "good"
    ELSE IF GteRat(avgRating, Rat(5, 1)) THEN "fair"
    ELSE "needs_improvement"

\* C19: in every getPropertyBreakdown result the performance tier of each
\* property is the tier of the avgRating reported for it: excellent from
\* 8.5, good from 7, fair from 5, needs_improvement below.
C19_TierOfReportedAverage ==
    \A p \in Procs :
        (Done(p) /\ reqs[p].op = "getPropertyBreakdown")
        => LET properties == reqs[p].res.body.properties IN
           \A l \in DOMAIN properties :
              properties[l].performance = TierOf(properties[l].avgRating)

-----------------------------------------------------------------------------
\* the stored reviews an AnalyticsFilterDto selects
MatchingReviews(st, filters) ==
    {d \in Docs(st) :
        /\ "listingId" \in DOMAIN filters => d.listingId = filters.listingId
        /\ "channel" \in DOMAIN filters => d.channel = filters.channel
        /\ "startDate" \in DOMAIN filters => d.submittedAt >= filters.startDate
        /\ "endDate" \in DOMAIN filters => d.submittedAt <= filters.endDate}

\* C20: every analytics report computes over exactly the stored reviews that
\* match the startDate/endDate, listingId and channel it was given: the
\* summary that getSummary computes for a filter counts the reviews that
\* match the filter, and no other.
C20_SummaryOverMatchingReviews ==
    [][\A p \in Procs :
          (reqs[p].op = "getSummary" /\ reqs[p].pc = "query" /\ reqs'[p].pc = "set")
          => reqs'[p].loc.value.overview.totalReviews
                = Cardinality(MatchingReviews(store, reqs[p].arg.filters))]_vars

-----------------------------------------------------------------------------
(* AnalyticsService.getChannelBreakdown and AnalyticsService.getInsights    *)
(* over a collection of rated reviews                                       *)

Channels == {"hostaway", "google"}

\* reviewCategories of a review, and the averageCategoryRating stored with them
RatingProfiles ==
    { [reviewCategories |-> <<[category |-> "cleanliness", rating |-> Rat(7, 1)]>>,
       averageCategoryRating |-> Rat(7, 1)],
      [reviewCategories |-> <<[category |-> "cleanliness", rating |-> Rat(699, 100)]>>,
       averageCategoryRating |-> Rat(699, 100)],
      [reviewCategories |-> <<[category |-> "cleanliness", rating |-> Rat(9, 1)],
                              [category |-> "communication", rating |-> Rat(6, 1)]>>,
       averageCategoryRating |-> Rat(75, 10)] }

ReportDocs(id) ==
    { [_id |-> id, listingId |-> l, channel |-> c, submittedAt |-> t,
       isApprovedForPublic |-> a,
       reviewCategories |-> r.reviewCategories,
       averageCategoryRating |-> r.averageCategoryRating] :
        l \in (IF id = "c3" THEN Listings ELSE {"L1"}),
        c \in (IF id = "b2" THEN Channels ELSE {"hostaway"}),
        t \in (IF id = "a1" THEN {1} ELSE {2}),
        a \in (IF id = "a1" THEN BOOLEAN ELSE {FALSE}),
        r \in RatingProfiles }

ReportStores ==
    {st \in [ObjectIdSet -> UNION {ReportDocs(id) \cup {NoReview} : id \in ObjectIdSet}] :
        \A id \in ObjectIdSet : st[id] \in ReportDocs(id) \cup {NoReview}}

\* query strings of the analytics routes: dates are days
ReportFilters ==
    { [none |-> TRUE], [startDate |-> 2], [listingId |-> "L1"], [channel |-> "google"] }

\* JSON.stringify of one of ReportFilters
stringifyFilter(filters) ==
    IF "startDate" \in DOMAIN filters
    THEN "{\"startDate\":\"" \o ToString(filters.startDate) \o "\"}"
    ELSE IF "channel" \in DOMAIN filters
    THEN "{\"channel\":\"" \o filters.channel \o "\"}"
    ELSE stringify(filters)

insightsKey(filters) == CACHE_PREFIX \o ":insights:" \o stringifyFilter(filters)
InsightsKeys == {insightsKey(f) : f \in ReportFilters}

\* x < y
LtRat(x, y) == x.n * y.d < y.n * x.d

\* the choices of a rounded average for every key of a grouping
Roundings(keys, avg(_)) ==
    {r \in [keys -> UNION {Round2(avg(k)) : k \in keys}] :
        \A k \in keys : r[k] \in Round2(avg(k))}

\* { $match: query }: every field of the query equals the field of the document
MatchesFields(doc, query) ==
    \A f \in DOMAIN query \ {"none"} : f \in DOMAIN doc /\ doc[f] = query[f]

\* getChannelBreakdown(dateFilter): $match { ...dateFilter }, $group by channel,
\* $project; the results the aggregation may give
channelBreakdowns(st, dateFilter) ==
    LET matched == {d \in Docs(st) : MatchesFields(d, dateFilter)}
        channels == {d.channel : d \in matched}
        group(c) == {d \in matched : d.channel = c}
    IN  { [c \in channels |->
              [channel |-> c,
               count |-> Cardinality(group(c)),
               avgRating |-> rounded[c],
               approvedCount |-> Cardinality({d \in group(c) : d.isApprovedForPublic})]] :
          rounded \in Roundings(channels, LAMBDA c : AvgRating(group(c))) }

ReportRequest(op, filters, hit, res) ==
    [op |-> op, pc |-> "done", arg |-> [filters |-> filters], loc |-> [hit |-> hit],
     res |-> res, seq |-> started + 1, overlap |-> {}]

\* GET /analytics/by-channel: the controller passes the query object on
getChannelBreakdown(p, filters) ==
    /\ started < MaxReports
    /\ \E result \in channelBreakdowns(store, filters) :
          reqs' = [reqs EXCEPT ![p] =
                      ReportRequest("getChannelBreakdown", filters, FALSE, Ok(result))]
    /\ started' = started + 1
    /\ UNCHANGED <<store, nextId, cache, lastWriter>>

\* buildDateFilter: the submittedAt range of startDate / endDate
buildDateFilter(filters) ==
    [f \in DOMAIN filters \cap {"startDate", "endDate"} |-> filters[f]]

MatchesDateFilter(doc, dateFilter) ==
    /\ "startDate" \in DOMAIN dateFilter => doc.submittedAt >= dateFilter.startDate
    /\ "endDate" \in DOMAIN dateFilter => doc.submittedAt <= dateFilter.endDate

\* find({ averageCategoryRating: { $lt: 7 }, ...dateFilter }), as a set of _ids
getLowRatedReviews(st, dateFilter) ==
    {d._id : d \in {d \in Docs(st) :
        LtRat(d.averageCategoryRating, Rat(7, 1)) /\ MatchesDateFilter(d, dateFilter)}}

\* find({ averageCategoryRating: { $gte: 9 }, ...dateFilter }), as a set of _ids
getHighRatedReviews(st, dateFilter) ==
    {d._id : d \in {d \in Docs(st) :
        GteRat(d.averageCategoryRating, Rat(9, 1)) /\ MatchesDateFilter(d, dateFilter)}}

\* { $unwind: '$reviewCategories' }: one element per document and category
Unwind(docs) ==
    UNION { {<<d, i>> : i \in 1..Len(d.reviewCategories)} : d \in docs }

RECURSIVE SumCategoryRatings(_)
SumCategoryRatings(elems) ==
    IF elems = {} THEN Rat(0, 1)
    ELSE LET e == CHOOSE x \in elems : TRUE
         IN  AddRat(e[1].reviewCategories[e[2]].rating, SumCategoryRatings(elems \ {e}))

\* $avg: '$reviewCategories.rating' over a group
AvgCategoryRating(elems) ==
    LET sum == SumCategoryRatings(elems) IN Rat(sum.n, sum.d * Cardinality(elems))

\* the elements of one category
OfCategory(docs, c) == {e \in Unwind(docs) : e[1].reviewCategories[e[2]].category = c}

CategoriesOf(docs) == {e[1].reviewCategories[e[2]].category : e \in Unwind(docs)}

\* getCategoryInsights: the results the aggregation may give
getCategoryInsights(st, dateFilter) ==
    LET matched == {d \in Docs(st) : MatchesDateFilter(d, dateFilter)}
        categories == CategoriesOf(matched)
    IN  { [c \in categories |->
              [category |-> c, avgRating |-> rounded[c],
               count |-> Cardinality(OfCategory(matched, c))]] :
          rounded \in Roundings(categories,
                                LAMBDA c : AvgCategoryRating(OfCategory(matched, c))) }

PropertyInsightsLimit == 5

\* getPropertyInsights: $group by listingId, $project, $sort avgRating, $limit;
\* the results the aggregation may give
getPropertyInsights(st, dateFilter) ==
    LET matched == {d \in Docs(st) : MatchesDateFilter(d, dateFilter)}
        listings == {d.listingId : d \in matched}
        group(l) == {d \in matched : d.listingId = l}
        first == Min(PropertyInsightsLimit, Cardinality(listings))
    IN  UNION {
          { [l \in kept |->
                [listingId |-> l, avgRating |-> rounded[l],
                 count |-> Cardinality(group(l))]] :
            kept \in {k \in SUBSET listings :
                        /\ Cardinality(k) = first
                        /\ \A a \in k, b \in listings \ k :
                              ~LtRat(rounded[b], rounded[a])} } :
          rounded \in Roundings(listings, LAMBDA l : AvgRating(group(l))) }

generateAlerts(lowRatedReviews, categoryInsights) ==
    (IF lowRatedReviews # {} THEN {"Low-Rated Reviews Detected"} ELSE {})
    \cup (IF \E c \in DOMAIN categoryInsights :
                LtRat(categoryInsights[c].avgRating, Rat(7, 1))
          THEN {"Category Performance Issues"} ELSE {})

generateStrengths(highRatedReviews, categoryInsights) ==
    (IF highRatedReviews # {} THEN {"Excellent Guest Satisfaction"} ELSE {})
    \cup (IF \E c \in DOMAIN categoryInsights :
                GteRat(categoryInsights[c].avgRating, Rat(9, 1))
          THEN {"Outstanding Category Performance"} ELSE {})

\* generateRecommendations: the recommendations pushed, as a set
generateRecommendations(categoryInsights, propertyInsights) ==
    { [category |-> c, currentRating |-> categoryInsights[c].avgRating] :
        c \in {c \in DOMAIN categoryInsights :
                  LtRat(categoryInsights[c].avgRating, Rat(7, 1))} }
    \cup
    { [property |-> l, currentRating |-> propertyInsights[l].avgRating] :
        l \in {l \in DOMAIN propertyInsights :
                  LtRat(propertyInsights[l].avgRating, Rat(7, 1))} }

\* the insights getInsights may compute
insightsOf(st, filters) ==
    LET dateFilter == buildDateFilter(filters)
        lowRatedReviews == getLowRatedReviews(st, dateFilter)
        highRatedReviews == getHighRatedReviews(st, dateFilter)
    IN  { [alerts |-> generateAlerts(lowRatedReviews, categoryInsights),
           strengths |-> generateStrengths(highRatedReviews, categoryInsights),
           recommendations |-> generateRecommendations(categoryInsights, propertyInsights),
           lowRatedReviews |-> lowRatedReviews,
           highRatedReviews |-> highRatedReviews] :
          categoryInsights \in getCategoryInsights(st, dateFilter),
          propertyInsights \in getPropertyInsights(st, dateFilter) }

\* GET /analytics/insights
getInsights(p, filters) ==
    /\ started < MaxReports
    /\ LET key == insightsKey(filters)
           cached == cacheGet(cache, key)
       IN  IF cached # NoEntry
           THEN /\ reqs' = [reqs EXCEPT ![p] =
                               ReportRequest("getInsights", filters, TRUE, Ok(cached.value))]
                /\ UNCHANGED cache
           ELSE \E insights \in insightsOf(store, filters) :
                   /\ cache' = cacheSet(cache, key, insights, DEFAULT_CACHE_TTL)
                   /\ reqs' = [reqs EXCEPT ![p] =
                                  ReportRequest("getInsights", filters, FALSE, Ok(insights))]
    /\ started' = started + 1
    /\ UNCHANGED <<store, nextId, lastWriter>>

ReportsInit ==
    /\ store \in ReportStores
    /\ nextId = 1
    /\ cache = [k \in InsightsKeys |-> NoEntry]
    /\ reqs = [p \in Procs |-> Idle]
    /\ started = 0
    /\ lastWriter = [id \in ObjectIdSet |-> 0]

ReportsNext ==
    \/ \E filters \in ReportFilters : getChannelBreakdown("p1", filters)
    \/ \E filters \in ReportFilters : getInsights("p1", filters)
    \/ \E id \in ObjectIdSet : deleteRated(id)

ReportsSpec == ReportsInit /\ [][ReportsNext]_vars

\* the report this step computes from the store
Reports(p, op) ==
    /\ Arrives(p)
    /\ reqs'[p].op = op
    /\ ~reqs'[p].loc.hit

\* C21: GET /analytics/by-channel returns, per channel, the count, avgRating
\* and approvedCount of exactly the stored reviews whose submittedAt lies in
\* the requested range and that match the other constraints supplied: one
\* entry for every channel that has such a review, and no other.
C21_ChannelBreakdownOverMatchingReviews ==
    [][\A p \in Procs :
          Reports(p, "getChannelBreakdown")
          => LET matching == MatchingReviews(store, reqs'[p].arg.filters)
                 result == reqs'[p].res.body
                 group(c) == {d \in matching : d.channel = c}
             IN  /\ DOMAIN result = {d.channel : d \in matching}
                 /\ \A c \in DOMAIN result :
                       /\ result[c].count = Cardinality(group(c))
                       /\ result[c].approvedCount =
                             Cardinality({d \in group(c) : d.isApprovedForPublic})
                       /\ result[c].avgRating \in Round2(AvgRating(group(c)))]_vars

\* C22: getInsights returns exactly one recommendation for each review
\* category whose average rating over the matching reviews is below 7,
\* exactly one for each property whose average rating over the matching
\* reviews is below 7, and no other recommendation.
C22_OneRecommendationPerLowAverage ==
    [][\A p \in Procs :
          Reports(p, "getInsights")
          => LET matching == MatchingReviews(store, reqs'[p].arg.filters)
                 recommendations == reqs'[p].res.body.recommendations
                 lowCategories ==
                     {c \in CategoriesOf(matching) :
                         LtRat(AvgCategoryRating(OfCategory(matching, c)), Rat(7, 1))}
                 lowProperties ==
                     {l \in {d.listingId : d \in matching} :
                         LtRat(AvgRating({d \in matching : d.listingId = l}), Rat(7, 1))}
                 forCategory(c) ==
                     {r \in recommendations : "category" \in DOMAIN r /\ r.category = c}
                 forProperty(l) ==
                     {r \in recommendations : "property" \in DOMAIN r /\ r.property = l}
             IN  /\ \A c \in lowCategories : Cardinality(forCategory(c)) = 1
                 /\ \A l \in lowProperties : Cardinality(forProperty(l)) = 1
                 /\ recommendations =
                       UNION ({forCategory(c) : c \in lowCategories}
                              \cup {forProperty(l) : l \in lowProperties})]_vars

-----------------------------------------------------------------------------
(* HostawayService.fetchReviews with its fallbacks, and                     *)
(* ReviewsService.fetchAndNormalizeHostawayReviews. The API answer and the  *)
(* fixture file are the environment's; reviews are HostawayReview values,   *)
(* with the ratings of reviewCategory for the categories. An exception is   *)
(* a value [threw |-> message] that the try / catch blocks pass or handle.  *)

Forbidden == 403

ApiReview == [id |-> 1, reviewCategory |-> <<10, 9>>, listingName |-> "Luxury Studio",
              listingId |-> Absent]
FileReview == [id |-> 2, reviewCategory |-> <<>>, listingName |-> "Cozy 1BR",
               listingId |-> "L1"]
\* getHardcodedMockData: one review stands for the 25 of the source
HardcodedReview == [id |-> 7453, reviewCategory |-> <<10, 10, 10>>,
                    listingName |-> "Cozy 1BR", listingId |-> Absent]

getHardcodedMockData == <<HardcodedReview>>

\* what axiosInstance.get ends in: an error with or without a response
\* status, or a response whose data has a result or has none
ApiOutcomes ==
    { [kind |-> "error", status |-> Forbidden, hasResult |-> FALSE, result |-> <<>>],
      [kind |-> "error", status |-> 0, hasResult |-> FALSE, result |-> <<>>],
      [kind |-> "response", status |-> 0, hasResult |-> FALSE, result |-> <<>>],
      [kind |-> "response", status |-> 0, hasResult |-> TRUE, result |-> <<>>],
      [kind |-> "response", status |-> 0, hasResult |-> TRUE, result |-> <<ApiReview>>],
      [kind |-> "response", status |-> 0, hasResult |-> TRUE,
       result |-> <<ApiReview, FileReview>>] }

\* mock-data/hostaway-reviews.json: not there, there but unreadable or no
\* JSON, or a HostawayApiResponse
FileStates ==
    { [exists |-> FALSE, parses |-> FALSE, result |-> <<>>],
      [exists |-> TRUE, parses |-> FALSE, result |-> <<>>],
      [exists |-> TRUE, parses |-> TRUE, result |-> <<>>],
      [exists |-> TRUE, parses |-> TRUE, result |-> <<FileReview>>],
      [exists |-> TRUE, parses |-> TRUE, result |-> <<FileReview, ApiReview>>] }

Threw(x) == "threw" \in DOMAIN x
Value(v) == [value |-> v]
Raise(message) == [threw |-> message]

\* fs.readFileSync and JSON.parse, then mockData.result
readMockData(file) ==
    IF file.parses THEN Value(file.result) ELSE Raise("SyntaxError")

\* a getMockReviews that lets the error of the file through
getMockReviewsNoCatch(file) ==
    IF file.exists THEN readMockData(file) ELSE Value(getHardcodedMockData)

\* HostawayService.getMockReviews
getMockReviews(file) ==
    IF file.exists
    THEN LET read == readMockData(file) IN
         IF Threw(read) THEN Value(getHardcodedMockData) ELSE read
    ELSE Value(getHardcodedMockData)

\* HostawayService.fetchReviews, from the outcome of the get
fetchReviews(api, file) ==
    IF api.kind = "response"
    THEN IF api.hasResult /\ Len(api.result) > 0
         THEN Value(api.result)
         ELSE getMockReviews(file)
    ELSE getMockReviews(file)

\* generateListingId, for the listing names of this model
generateListingId(listingName) ==
    CASE listingName = "Luxury Studio" -> "luxury-studio"
      [] listingName = "Cozy 1BR" -> "cozy-1br"

normalizeReview(review) ==
    [hostawayId |-> review.id,
     reviewCategories |-> review.reviewCategory,
     listingId |-> IF review.listingId = Absent
                   THEN generateListingId(review.listingName)
                   ELSE review.listingId,
     listingName |-> review.listingName,
     channel |-> "hostaway",
     averageCategoryRating |-> calculateAverageRating(review.reviewCategory)]

normalizeReviews(hostawayReviews) ==
    [i \in 1..Len(hostawayReviews) |-> normalizeReview(hostawayReviews[i])]

\* GET /reviews/hostaway: up to the await of the get
fetchAndNormalizeHostawayReviews(p) ==
    /\ CanStart(p)
    /\ Serve(p, "fetchAndNormalizeHostawayReviews", "get", NoBody, NoBody, Pending)
    /\ UNCHANGED <<nextId, store, cache, lastWriter>>

\* the get ends in api while the fixture file is in state file: the rest of
\* fetchReviews, then normalizeReviews and the answer, or BadRequest
fetched(p, api, file) ==
    /\ reqs[p].op = "fetchAndNormalizeHostawayReviews" /\ reqs[p].pc = "get"
    /\ LET rawReviews == fetchReviews(api, file)
           loc == [api |-> api, file |-> file, threw |-> Threw(rawReviews)]
       IN  IF Threw(rawReviews)
           THEN Return(p, loc, Failed("BadRequest"))
           ELSE LET normalizedReviews == normalizeReviews(rawReviews.value) IN
                Return(p, loc,
                       Ok([status |-> "success", count |-> Len(normalizedReviews),
                           reviews |-> normalizedReviews]))
    /\ UNCHANGED <<nextId, store, cache, lastWriter>>

FetchNext ==
    \/ \E p \in Procs : fetchAndNormalizeHostawayReviews(p)
    \/ \E p \in Procs, api \in ApiOutcomes, file \in FileStates : fetched(p, api, file)

FetchSpec == Init /\ [][FetchNext]_vars

\* the get failed, or its response had an empty result or none
FetchFailed(api) == api.kind = "error" \/ ~api.hasResult \/ Len(api.result) = 0

\* the fallback dataset: the result of the file, or the hard-coded set
Fallback(file) ==
    IF file.exists /\ file.parses THEN file.result ELSE getHardcodedMockData

-----------------------------------------------------------------------------
(* C24: operations that end in an error *)

\* the request has ended in an error
Errored(r) == r.pc = "done" /\ r.res.status \notin {"ok", "none"}

\* the request has written the store: its write is done and the
\* invalidation is next, or it is past the first record of its batch
PastWrite(r) ==
    \/ r.pc = "invalidate"
    \/ (r.op = "syncReviews" /\ r.pc = "upsert" /\ r.loc.i > 1)

-----------------------------------------------------------------------------
(* Cached reads that go on after the mutations have stopped. A mutating     *)
(* request counts in started, up to MaxMutations; a read does not, so that  *)
(* reads arrive for ever. Every awaited call of a request in flight         *)
(* completes, and every cache entry expires (weak fairness).                *)

MaxMutations == 1

ReadOps == {"getStatistics", "getApprovedReviews", "getReviewsTrend", "getSummary"}

\* cacheManager.get(key), then "if (cached) return cached", of a read
liveRead(p, op, arg, key, ttl) ==
    /\ ~InFlight(reqs[p])
    /\ LET cached == cacheGet(cache, key)
           request(pc, loc, res) ==
               [op |-> op, pc |-> pc, arg |-> arg, loc |-> loc, res |-> res,
                seq |-> 0, overlap |-> {}]
       IN  reqs' = [reqs EXCEPT ![p] =
                IF cached # NoEntry
                THEN request("done", [hit |-> TRUE], Ok(cached.value))
                ELSE request("query", [key |-> key, hit |-> FALSE, ttl |-> ttl], Pending)]
    /\ UNCHANGED <<started, nextId, store, cache, lastWriter>>

liveGetStatistics(p) ==
    liveRead(p, "getStatistics", NoBody, CACHE_KEYS_STATISTICS, STATISTICS_TTL)

liveGetApprovedReviews(p, listingId, limit) ==
    liveRead(p, "getApprovedReviews", [listingId |-> listingId, limit |-> limit],
             approvedKey(listingId, limit), APPROVED_TTL)

liveGetReviewsTrend(p, days) ==
    liveRead(p, "getReviewsTrend", [days |-> days], trendKey(days), TREND_TTL)

liveGetSummary(p, filters) ==
    liveRead(p, "getSummary", [filters |-> filters], summaryKey(filters),
             DEFAULT_CACHE_TTL)

liveApproveReview(p, id, approvedBy) ==
    /\ started < MaxMutations
    /\ approveReview(p, id, approvedBy)

liveRemove(p, id) ==
    /\ started < MaxMutations
    /\ remove(p, id)

\* the awaited calls of the request of p
LiveStep(p) ==
    \/ repositoryUpdate(p)
    \/ invalidate(p)
    \/ getStatisticsQuery(p)
    \/ getApprovedReviewsQuery(p)
    \/ getReviewsTrendQuery(p)
    \/ getSummaryQuery(p)
    \/ cacheWrite(p)

LiveNext ==
    \/ \E p \in Procs : liveApproveReview(p, "a1", Absent)
    \/ \E p \in Procs : liveRemove(p, "a1")
    \/ \E p \in Procs : liveGetStatistics(p)
    \/ \E p \in Procs : liveGetApprovedReviews(p, Absent, DefaultLimit)
    \/ \E p \in Procs : liveGetReviewsTrend(p, DefaultDays)
    \/ \E p \in Procs : liveGetSummary(p, NoBody)
    \/ \E p \in Procs : LiveStep(p)
    \/ \E k \in CacheKeys : Expire(k)

LiveSpec ==
    /\ Init
    /\ [][LiveNext]_vars
    /\ \A p \in Procs : WF_vars(LiveStep(p))
    /\ \A k \in CacheKeys : WF_vars(Expire(k))

\* the result of a cached read, as computed from the store st
ComputedFrom(r, st) ==
    CASE r.op = "getStatistics" -> r.res.body = statisticsOf(st)
      [] r.op = "getApprovedReviews" ->
            r.res.body.reviews \in findApprovedReviews(st, r.arg.listingId, r.arg.limit)
      [] r.op = "getReviewsTrend" ->
            \E t \in 0..MaxMutations : r.res.body = reviewsTrendOf(st, r.arg.days, t)
      [] r.op = "getSummary" ->
            \E t \in 0..MaxMutations : r.res.body = summaryOf(st, r.arg.filters, t)

\* C25: once the mutating operations have stopped, and with every cache
\* entry expiring in the end, there comes a time from which on every cached
\* read that returns (getStatistics, getApprovedReviews, getReviewsTrend,
\* getSummary) returns a result computed from the final state of the store.
C25_ReadsEventuallyFresh ==
    <>[][\A p \in Procs :
            (reqs'[p] # reqs[p] /\ reqs'[p].pc = "done" /\ reqs'[p].op \in ReadOps)
            => ComputedFrom(reqs'[p], store')]_vars

\* after the last mutation, an approveReview that changed the store while a
\* getStatistics was in flight, a later getStatistics has computed the
\* statistics anew and filled the cache with them
C25_Witness ==
    \E p, q \in Procs :
        /\ started = MaxMutations
        /\ Done(q) /\ reqs[q].op = "approveReview" /\ reqs[q].res.status = "ok"
        /\ Done(p) /\ reqs[p].op = "getStatistics" /\ ~reqs[p].loc.hit
        /\ reqs[p].res.body = statisticsOf(store)
        /\ reqs[p].res.body.overview.approvedCount = 1
        /\ cache[CACHE_KEYS_STATISTICS] # NoEntry
        /\ cache[CACHE_KEYS_STATISTICS].value = reqs[p].res.body

-----------------------------------------------------------------------------
\* C26: in every reachable state, a stored review that is not approved for
\* the public has neither an approvedAt nor an approvedBy.
C26_UnapprovedHasNoMetadata ==
    \A id \in StoredIds(store) :
        ~store[id].isApprovedForPublic
        => /\ store[id].approvedAt = NullDate
           /\ store[id].approvedBy = Null

-----------------------------------------------------------------------------
\* C27: in every reachable state, under any interleaving of concurrent
\* update, approveReview and bulkApprove requests, a stored review that is
\* approved for the public has an approvedAt.
C27_ApprovedHasApprovedAt ==
    \A id \in StoredIds(store) :
        store[id].isApprovedForPublic => store[id].approvedAt # NullDate

-----------------------------------------------------------------------------
\* a mutating request is being served
MutationInFlight == \E q \in Procs : InFlight(reqs[q]) /\ reqs[q].op \in MutatingOps

\* C28: a getStatistics call that starts when every mutating operation has
\* fully returned does not return statistics computed from a state of the
\* store before one of these mutations: served from the cache, it returns
\* the statistics of the store as it is, also when other getStatistics
\* calls were in flight while a mutation ran.
C28_StatisticsAfterMutationAreFresh ==
    [][\A p \in Procs :
          (/\ Arrives(p)
           /\ reqs'[p].op = "getStatistics"
           /\ reqs'[p].pc = "done"
           /\ ~MutationInFlight)
          => reqs'[p].res.body = statisticsOf(store)]_vars

-----------------------------------------------------------------------------
(* ReviewsService.getApprovedReviews called with any listing id string *)

\* listingId of GET /reviews/approved: none, a listing, the string "all"
ListingStrings == {Absent, "L1", "all"}

ListingKeys == {approvedKey(l, n) : l \in ListingStrings, n \in Limits}

ListingInit ==
    /\ store \in InitStores
    /\ nextId = 1 + Cardinality(StoredIds(store))
    /\ cache = [k \in ListingKeys |-> NoEntry]
    /\ reqs = [p \in Procs |-> Idle]
    /\ started = 0
    /\ lastWriter = [id \in ObjectIdSet |-> 0]

ListingNext ==
    \/ \E p \in Procs, l \in ListingStrings, n \in Limits : getApprovedReviews(p, l, n)
    \/ \E p \in Procs : getApprovedReviewsQuery(p)
    \/ \E p \in Procs : cacheWrite(p)

ListingSpec == ListingInit /\ [][ListingNext]_vars

\* C29: a result that getApprovedReviews(listingId, limit) returns from the
\* cache was computed for the same listingId and limit: calls that differ
\* in listingId (no listingId against any listing id string) or in limit
\* share no cache entry, so the cached result is one the query gives for
\* the arguments of the call (the store does not change here).
C29_CachedListingIsForItsArguments ==
    [][\A p \in Procs :
          (Arrives(p) /\ reqs'[p].op = "getApprovedReviews" /\ reqs'[p].pc = "done")
          => reqs'[p].res.body.reviews
                \in findApprovedReviews(store, reqs'[p].arg.listingId, reqs'[p].arg.limit)]_vars

-----------------------------------------------------------------------------
\* C30: update(id, dto) returns the updated review or fails with NotFound:
\* also when a remove(id) runs between its existence check and its write, it
\* neither succeeds with no review (null) nor goes on to invalidateCache
\* without a review written.
C30_UpdateReturnsReviewOrNotFound ==
    \A p \in Procs :
        (reqs[p].op = "update" /\ reqs[p].pc \in {"invalidate", "done"})
        => \/ reqs[p].res.status = "NotFound"
           \/ (reqs[p].res.status = "ok" /\ reqs[p].res.body.review # Null)

====
